---- MODULE Spec2Model ----
(***************************************************************************)
(* Batch submission pipeline of src/lib/scorestream-post.ts:               *)
(* postPhotoToScoreStream, postMultiplePhotos and retryFailedPhotos.       *)
(* The file holds two variants of postPhotoToScoreStream: the "direct"     *)
(* one (lines 96-171, posts to the ScoreStream API, compresses photos,     *)
(* reads result.paramErrors) and the "proxy" one (lines 255-299, posts to  *)
(* /api/scorestream-proxy).  postMultiplePhotos and retryFailedPhotos are  *)
(* the same in both.                                                       *)
(***************************************************************************)
EXTENDS Integers, Sequences, FiniteSets, TLC

VARIABLES
  variant,        \* which postPhotoToScoreStream is linked: "direct" or "proxy"
  photos,         \* the list postMultiplePhotos is running on
  originalPhotos, \* the list of the first run (second argument of retryFailedPhotos)
  run,            \* 1: run started by a caller, 2: run started by retryFailedPhotos
  pc,             \* position of the async function: idle, compress, fetch, cooldown, returned, threw
  i,              \* loop variable of postMultiplePhotos (0-based, as in the code)
  successful,     \* local array successful
  failed,         \* local array failed
  inFlight,       \* indexes (1-based) of the items whose remote request is outstanding
  elapsed,        \* ms since the cooldown timer was set
  ret,            \* the BatchPostResult handed to the caller, NoResult before
  progressCalls,  \* history: the calls of onProgress, in order
  attempts,       \* history: the indexes of the items handed to postPhotoToScoreStream, in order
  log,            \* history: per completed attempt, the item, what the remote did and the PostResult
  cooldowns,      \* history: per cooldown waited for in this run, the ms it lasted
  firstLog,       \* history: log of the first run, kept when retryFailedPhotos starts the second
  dropped,        \* history: failed results retryFailedPhotos found no request for
  step,           \* UploadPage: 'upload' or 'edit'
  pagePhotos,     \* UploadPage: photos
  uploaderPhotos, \* LocalPhotoUploader: photos (the component is mounted while the editor is not)
  editorPhotos,   \* PhotoEditor: photos (the component is mounted while step = 'edit' and pagePhotos is not empty)
  isPublishing,   \* PhotoEditor: isPublishing
  runMounted,     \* the PhotoEditor instance whose handlePublish is running is still mounted
  nextId,         \* ids handed out so far + 1 (ids are random strings, taken to be fresh)
  deleted,        \* history: ids of the items the user removed (removePhoto, clearAll, handleRemovePhoto)
  kept,           \* history: ids handlePublish left in the editor's list when its last run ended
  removedAsPosted,\* history: ids handlePublish took out of the editor's list when its last run ended
  rendered,       \* LocalPhotoUploader: photos.length as of its last render (what onDrop and the dropzone see)
  earlier,        \* runs of postMultiplePhotos started by editors since unmounted, other than the one of pc: items left
  now,            \* rate limiter: Date.now(), in clock steps
  tokens,         \* rate limiter: the Map tokens, key -> TokenData
  checks,         \* history: per key, the time and the outcome of every check, in order
  service,        \* which getUserGames is linked: "cards" (lib/scorestream.ts) or "fanout"
  gpc,            \* position of getUserGames: idle, first, activity, returned, threw
  teamIds,        \* getUserGames (fanout): local teamIds
  teamMap,        \* getUserGames: local teamMap, team id -> team record
  heard,          \* history: the responses the calls of callScoreStreamAPI settled with, in order
  collected,      \* getUserGames: local games before games.sort
  userGames,      \* the list getUserGames returned
  thrown,         \* the message of the Error getUserGames threw, "" when none
  env,            \* process.env of the server: name -> undefined or a string
  health,         \* history: the last response of /api/health, NoResponse before
  req,            \* API routes: the request in handling, NoRequest before the first
  rpc,            \* API routes: position of the handler: idle, fetch, settling, done
  uploads,        \* /api/cloudinary-upload: per upload started for req, buffer, remote, fulfilled or rejected
  fetched,        \* history: the proxy handler has called fetch for req
  response,       \* the status the handler answered req with, 0 before
  selector,       \* which GameSelector is linked: "refresh" (lines 1-190) or "guarded" (lines 193-)
  userId,         \* GameSelector: the prop userId
  live,           \* GameSelector: number of the effect run whose cleanup has not run, 0 when none has a timer
  effects,        \* effect runs that set a timer so far
  timers,         \* pending setTimeout callbacks: effect run, its userId, ms since it was set
  lookups,        \* calls of getUserGames in flight: effect run, its userId
  gamesShown,     \* GameSelector: games, as the effect run it came from (0: []) and its length
  errorShown,     \* GameSelector: error, as the effect run it came from (0: null) and the message
  loading,        \* GameSelector: loading
  currentFor,     \* history: ms since userId or refreshKey last changed
  issued          \* history: the calls of getUserGames, in order

pageVars == <<step, pagePhotos, uploaderPhotos, editorPhotos, isPublishing, runMounted,
              nextId, deleted, kept, removedAsPosted, rendered, earlier>>

limiterVars == <<now, tokens, checks>>

serviceVars == <<service, gpc, teamIds, teamMap, heard, collected, userGames, thrown>>

healthVars == <<env, health>>

\* the server routes and the game selector
routeVars == <<req, rpc, uploads, fetched, response>>

selectorVars == <<selector, userId, live, effects, timers, lookups, gamesShown, errorShown,
                  loading, currentFor, issued>>

elsewhere == <<healthVars, routeVars, selectorVars>>

pipeline == <<variant, photos, originalPhotos, run, pc, i, successful, failed, inFlight,
              elapsed, ret, progressCalls, attempts, log, cooldowns, firstLog, dropped>>

\* what the batch pipeline of scorestream-post.ts never touches
outside == <<pageVars, limiterVars, serviceVars, elsewhere>>

\* what the upload page never touches, the pipeline apart
offPage == <<limiterVars, serviceVars, elsewhere>>

vars == <<variant, photos, originalPhotos, run, pc, i, successful, failed, inFlight,
          elapsed, ret, progressCalls, attempts, log, cooldowns, firstLog, dropped,
          pageVars, limiterVars, serviceVars, elsewhere>>

----------------------------------------------------------------------------
(* Bounds of the model *)

MaxPhotos == 3

(* Program constants *)

MAX_FILE_SIZE == 4 * 1024 * 1024
COOLDOWN_MS == 500

\* granularity of the clock while a cooldown timer is pending
TickMs == COOLDOWN_MS \div 2

----------------------------------------------------------------------------
(* JavaScript values that reach PostResult.error and PostResult.postId:     *)
(* undefined, a string, or an object (of which only .message is read).      *)

Undefined == [t |-> "undefined", s |-> ""]
Str(s) == [t |-> "string", s |-> s]
Obj(message) == [t |-> "object", s |-> message]

Truthy(v) == v.t = "object" \/ (v.t = "string" /\ v.s # "")

\* a || b
Or(a, b) == IF Truthy(a) THEN a ELSE b

\* v?.message : a string has no message property, an object may have one
MessageOf(v) == IF v.t = "object" /\ v.s # "" THEN Str(v.s) ELSE Undefined

----------------------------------------------------------------------------
(* Files and requests.  id is the identity of the request object (its       *)
(* position in the caller's list); two requests may hold the same name.     *)

Files ==
  { [name |-> "a.jpg", size |-> 1000000, type |-> "photo"],
    [name |-> "a.jpg", size |-> 6000000, type |-> "photo"],
    [name |-> "b.mp4", size |-> 6000000, type |-> "video"] }

RECURSIVE SeqsUpTo(_, _)
SeqsUpTo(S, n) ==
  IF n = 0 THEN { <<>> }
  ELSE LET shorter == SeqsUpTo(S, n - 1)
       IN  shorter \cup { Append(q, x) : q \in { r \in shorter : Len(r) = n - 1 }, x \in S }

WithIds(fs) == [k \in 1..Len(fs) |-> [id |-> k, file |-> fs[k]]]

PhotoLists(n) == { WithIds(fs) : fs \in SeqsUpTo(Files, n) }

----------------------------------------------------------------------------
(* What the remote end can do with one request. *)

NoData == [error |-> Undefined, paramErrors |-> <<>>, details |-> Undefined,
           postId |-> Undefined, gamePostId |-> Undefined]

\* fetch() rejects
NetworkError == [kind |-> "reject", status |-> 0, message |-> "Failed to fetch", data |-> NoData]
\* fetch() resolves, reading the body rejects
Unreadable(status) == [kind |-> "unreadable", status |-> status, message |-> "body stream error", data |-> NoData]
\* the body is not JSON
NotJson(status) == [kind |-> "text", status |-> status, message |-> "Unexpected token < in JSON", data |-> NoData]
\* the body is a JSON object
Json(status, data) == [kind |-> "json", status |-> status, message |-> "", data |-> data]

Statuses == {200, 404, 500}

ErrorValues == {Undefined, Str("bad token"), Obj("rpc failed"), Obj("")}
ParamErrorLists == { <<>>, <<"gameId is invalid">>, <<"">>, <<"gameId is invalid", "file too large">> }
DetailValues == {Undefined, Obj("proxy detail")}
PostIds == {Undefined, Str("p1")}

DataValues ==
  { [error |-> e, paramErrors |-> pe, details |-> d, postId |-> p, gamePostId |-> Undefined] :
      e \in ErrorValues, pe \in ParamErrorLists, d \in DetailValues, p \in PostIds }

\* every answer of the model
Responses ==
  {NetworkError}
    \cup { Unreadable(s) : s \in Statuses }
    \cup { NotJson(s) : s \in Statuses }
    \cup { Json(s, d) : s \in Statuses, d \in DataValues }

Posted == Json(200, [NoData EXCEPT !.postId = Str("p1")])
Http500 == Json(500, NoData)
Http404 == Json(404, NoData)

\* the answers used when whole batches are explored
BatchResponses == {Posted, Http500, NotJson(500), NetworkError}

\* the answers used when the HTTP status of a failure is looked at
StatusResponses == {Posted, Http500, Http404, NotJson(500)}

\* response.ok
Ok(resp) == resp.status >= 200 /\ resp.status <= 299

----------------------------------------------------------------------------
(* postPhotoToScoreStream *)

Success(fileName, postId) ==
  [success |-> TRUE, fileName |-> fileName, postId |-> postId, error |-> Undefined]

Failure(fileName, error) ==
  [success |-> FALSE, fileName |-> fileName, postId |-> Undefined, error |-> error]

\* an exception object: isError is `error instanceof Error`
Exception(message) == [isError |-> TRUE, message |-> message]

\* how the promise of postPhotoToScoreStream settles
Resolved(result) == [rejected |-> FALSE, result |-> result]
Rejected(exc) == [rejected |-> TRUE, result |-> Failure("", Str(exc.message))]

\* the exception is thrown on
Catch_Rethrow(params, exc) == Rejected(exc)

\* the catch block
Catch(params, exc) ==
  Resolved(Failure(params.file.name,
                   IF exc.isError THEN Str(exc.message) ELSE Str("Unknown error")))

\* the status line's reason phrase is reported instead of the status code
HttpStatusText_Reason(status) ==
  Str(IF status = 404 THEN "Not Found" ELSE "Internal Server Error")

HttpStatusText(status) == Str("HTTP " \o ToString(status))

\* direct variant: JSON.parse in its own try/catch
ParsedDirect(resp) ==
  IF resp.kind = "json" THEN resp.data
  ELSE [NoData EXCEPT !.error = Str("Invalid response from ScoreStream API")]

FirstParamErrorMessage(data) ==
  IF Len(data.paramErrors) > 0 /\ data.paramErrors[1] # ""
  THEN Str(data.paramErrors[1]) ELSE Undefined

ErrorMsgDirect(resp, data) ==
  Or(FirstParamErrorMessage(data),
     Or(MessageOf(data.error),
        Or(data.error, HttpStatusText(resp.status))))

IsErrorDirect(resp, data) ==
  ~Ok(resp) \/ Truthy(data.error) \/ Len(data.paramErrors) > 0

ErrorMsgProxy(resp, data) ==
  Or(data.error, Or(MessageOf(data.details), HttpStatusText(resp.status)))

IsErrorProxy(resp, data) == ~Ok(resp) \/ Truthy(data.error)

\* how postPhotoToScoreStream settles once fetch has settled with resp
ResultDirect(params, resp) ==
  IF resp.kind \in {"reject", "unreadable"} THEN Catch(params, Exception(resp.message))
  ELSE LET data == ParsedDirect(resp)
       IN  IF IsErrorDirect(resp, data)
           THEN Resolved(Failure(params.file.name, ErrorMsgDirect(resp, data)))
           ELSE Resolved(Success(params.file.name, Or(data.postId, data.gamePostId)))

ResultProxy(params, resp) ==
  IF resp.kind # "json" THEN Catch(params, Exception(resp.message))
  ELSE LET data == resp.data
       IN  IF IsErrorProxy(resp, data)
           THEN Resolved(Failure(params.file.name, ErrorMsgProxy(resp, data)))
           ELSE Resolved(Success(params.file.name, Or(data.postId, data.gamePostId)))

ResultOf(params, resp) ==
  IF variant = "direct" THEN ResultDirect(params, resp) ELSE ResultProxy(params, resp)

\* compressIfNeeded is awaited for photos of the direct variant only
NeedsCompress(params) ==
  variant = "direct" /\ params.file.type # "video" /\ params.file.size > MAX_FILE_SIZE

CompressErrors == {"Failed to load image", "Failed to compress image"}

\* what the log records for a rejected compressIfNeeded
CompressFailure(message) ==
  [kind |-> "compress", status |-> 0, message |-> message, data |-> NoData]

----------------------------------------------------------------------------
(* postMultiplePhotos *)

NoResult ==
  [successful |-> <<>>, failed |-> <<>>, totalPhotos |-> -1,
   successCount |-> -1, failureCount |-> -1]

BatchPostResult(list, succ, fl) ==
  [successful |-> succ, failed |-> fl, totalPhotos |-> Len(list),
   successCount |-> Len(succ), failureCount |-> Len(fl)]

PushSuccessful(succ, result) == IF result.success THEN Append(succ, result) ELSE succ

\* the failure replaces the list instead of being appended to it
PushFailed_Overwrite(fl, result) == IF result.success THEN fl ELSE <<result>>

PushFailed(fl, result) == IF result.success THEN fl ELSE Append(fl, result)

\* the loop index is passed as it is, 0-based
ProgressArgs_ZeroBased(idx, total, result) ==
  [completed |-> idx, total |-> total, currentResult |-> result]

\* onProgress?.(i + 1, photos.length, result)
ProgressArgs(idx, total, result) ==
  [completed |-> idx + 1, total |-> total, currentResult |-> result]

\* the timer is set after the last item too
NeedsCooldown_Always(idx, total) == TRUE

\* if (i < photos.length - 1)
NeedsCooldown(idx, total) == idx < total - 1

\* postPhotoToScoreStream(list[k]) up to its first suspension
StartItem(list, k, infl, att) ==
  /\ attempts' = Append(att, k)
  /\ IF NeedsCompress(list[k])
     THEN pc' = "compress" /\ inFlight' = infl
     ELSE pc' = "fetch" /\ inFlight' = infl \cup {k}

\* the return statement sits inside the loop body: the run returns after its first item
Enter_ReturnInLoop(list, idx, succ, fl, infl, att) ==
  /\ i' = idx
  /\ IF idx < Len(list) /\ idx = 0
     THEN StartItem(list, idx + 1, infl, att) /\ ret' = NoResult
     ELSE /\ pc' = "returned"
          /\ ret' = BatchPostResult(list, succ, fl)
          /\ inFlight' = infl
          /\ attempts' = att

\* every remaining request is issued at once, none is awaited before the next
Enter_AllAtOnce(list, idx, succ, fl, infl, att) ==
  /\ i' = idx
  /\ IF idx < Len(list)
     THEN /\ attempts' = att \o [k \in 1..(Len(list) - idx) |-> idx + k]
          /\ inFlight' = infl \cup ((idx + 1)..Len(list))
          /\ pc' = "fetch"
          /\ ret' = NoResult
     ELSE /\ pc' = "returned"
          /\ ret' = BatchPostResult(list, succ, fl)
          /\ inFlight' = infl
          /\ attempts' = att

\* the loop gives up at the first failure
Enter_StopOnFailure(list, idx, succ, fl, infl, att) ==
  /\ i' = idx
  /\ IF idx < Len(list) /\ fl = <<>>
     THEN StartItem(list, idx + 1, infl, att) /\ ret' = NoResult
     ELSE /\ pc' = "returned"
          /\ ret' = BatchPostResult(list, succ, fl)
          /\ inFlight' = infl
          /\ attempts' = att

\* the loop test with i = idx, and what follows it up to the next suspension
Enter(list, idx, succ, fl, infl, att) ==
  /\ i' = idx
  /\ IF idx < Len(list)
     THEN StartItem(list, idx + 1, infl, att) /\ ret' = NoResult
     ELSE /\ pc' = "returned"
          /\ ret' = BatchPostResult(list, succ, fl)
          /\ inFlight' = infl
          /\ attempts' = att

\* the code after `await postPhotoToScoreStream(photos[i])`, up to the next suspension
Settle(done, what, infl) ==
  IF done.rejected
  THEN /\ pc' = "threw"
       /\ inFlight' = infl
       /\ UNCHANGED <<i, successful, failed, elapsed, ret, progressCalls, attempts, log>>
  ELSE LET result == done.result
           succ == PushSuccessful(successful, result)
           fl == PushFailed(failed, result)
       IN  /\ successful' = succ
           /\ failed' = fl
           /\ progressCalls' = Append(progressCalls, ProgressArgs(i, Len(photos), result))
           /\ log' = Append(log, [idx |-> i + 1, id |-> photos[i + 1].id,
                                  outcome |-> what, result |-> result])
           /\ IF NeedsCooldown(i, Len(photos))
              THEN /\ pc' = "cooldown"
                   /\ elapsed' = 0
                   /\ inFlight' = infl
                   /\ UNCHANGED <<i, ret, attempts>>
              ELSE /\ elapsed' = elapsed
                   /\ Enter(photos, i + 1, succ, fl, infl, attempts)

\* a caller calls postMultiplePhotos(photos, onProgress)
Call ==
  /\ pc = "idle"
  /\ successful' = <<>>
  /\ failed' = <<>>
  /\ Enter(photos, 0, <<>>, <<>>, inFlight, attempts)
  /\ UNCHANGED <<variant, photos, originalPhotos, run, elapsed, progressCalls, log,
                 cooldowns, firstLog, dropped>>
  /\ UNCHANGED outside

\* compressIfNeeded settles
CompressDone ==
  /\ pc = "compress"
  /\ \/ /\ pc' = "fetch"
        /\ inFlight' = inFlight \cup {i + 1}
        /\ UNCHANGED <<i, successful, failed, elapsed, ret, progressCalls, attempts, log>>
     \/ \E m \in CompressErrors :
          Settle(Catch(photos[i + 1], Exception(m)), CompressFailure(m), inFlight)
  /\ UNCHANGED <<variant, photos, originalPhotos, run, cooldowns, firstLog, dropped>>
  /\ UNCHANGED outside

\* the remote request of the awaited item settles with one of the answers in R
Respond(R) ==
  /\ pc = "fetch"
  /\ i + 1 \in inFlight
  /\ \E resp \in R :
       Settle(ResultOf(photos[i + 1], resp), resp, inFlight \ {i + 1})
  /\ UNCHANGED <<variant, photos, originalPhotos, run, cooldowns, firstLog, dropped>>
  /\ UNCHANGED outside

\* time passes while the cooldown timer is pending (a timer may fire late)
Tick ==
  /\ pc = "cooldown"
  /\ elapsed < COOLDOWN_MS + TickMs
  /\ elapsed' = elapsed + TickMs
  /\ UNCHANGED <<variant, photos, originalPhotos, run, pc, i, successful, failed, inFlight,
                 ret, progressCalls, attempts, log, cooldowns, firstLog, dropped>>
  /\ UNCHANGED outside

\* the timer's callback never calls resolve
TimerFires_Never(ms) == FALSE

\* setTimeout(resolve, 500): the callback runs once 500 ms have passed, not before
TimerFires(ms) == ms >= COOLDOWN_MS

\* setTimeout(resolve, 500) fires: i++ and the next turn of the loop
CooldownDone ==
  /\ pc = "cooldown"
  /\ TimerFires(elapsed)
  /\ cooldowns' = Append(cooldowns, elapsed)
  /\ Enter(photos, i + 1, successful, failed, inFlight, attempts)
  /\ UNCHANGED <<variant, photos, originalPhotos, run, successful, failed, elapsed,
                 progressCalls, log, firstLog, dropped>>
  /\ UNCHANGED outside

----------------------------------------------------------------------------
(* retryFailedPhotos *)

\* originalPhotos.find(p => p.file.name === fileName): the first match, 0 when there is none
FindByName(orig, fileName) ==
  LET hits == { k \in 1..Len(orig) : orig[k].file.name = fileName }
  IN  IF hits = {} THEN 0 ELSE CHOOSE k \in hits : \A h \in hits : k <= h

RECURSIVE MapFind(_, _)
\* failedResults.map(failed => originalPhotos.find(...)): indexes into orig, 0 for undefined
MapFind(failedResults, orig) ==
  IF failedResults = <<>> THEN <<>>
  ELSE <<FindByName(orig, Head(failedResults).fileName)>> \o MapFind(Tail(failedResults), orig)

\* every request whose name is the name of a failed result is retried, in list order
PhotosToRetry_AllNamed(failedResults, orig) ==
  SelectSeq(orig, LAMBDA p : \E j \in 1..Len(failedResults) :
                               failedResults[j].fileName = p.file.name)

\* failedResults.map(find).filter(p => p !== undefined)
PhotosToRetry(failedResults, orig) ==
  LET found == SelectSeq(MapFind(failedResults, orig), LAMBDA k : k # 0)
  IN  [j \in 1..Len(found) |-> orig[found[j]]]

\* the failed results for which find() gave undefined
Unmatched(failedResults, orig) ==
  SelectSeq(failedResults, LAMBDA f : FindByName(orig, f.fileName) = 0)

\* list without its k-th element
Without(list, k) == [j \in 1..(Len(list) - 1) |-> IF j < k THEN list[j] ELSE list[j + 1]]

\* the lists a caller may hand over as originalPhotos: the list of the run, or
\* that list after the user removed one of its requests
RetryOriginals(list) == {list} \cup { Without(list, k) : k \in 1..Len(list) }

\* a caller calls retryFailedPhotos(result.failed, orig, onProgress)
Retry ==
  /\ pc = "returned"
  /\ run = 1
  /\ \E orig \in RetryOriginals(photos) :
       LET list == PhotosToRetry(ret.failed, orig)
       IN  /\ originalPhotos' = orig
           /\ photos' = list
           /\ dropped' = Unmatched(ret.failed, orig)
           /\ Enter(list, 0, <<>>, <<>>, inFlight, <<>>)
  /\ run' = 2
  /\ firstLog' = log
  /\ successful' = <<>>
  /\ failed' = <<>>
  /\ progressCalls' = <<>>
  /\ log' = <<>>
  /\ cooldowns' = <<>>
  /\ UNCHANGED <<variant, elapsed>>
  /\ UNCHANGED outside

----------------------------------------------------------------------------
(* The rate limiter of src/lib/rate-limit.ts.  Time is counted in clock     *)
(* steps; config.interval and CLEANUP_INTERVAL are both one minute at the   *)
(* call sites (60 * 1000 and 60000).                                        *)

\* config.interval, in clock steps
Interval == 3

\* the limit argument of check (10 and 30 at the call sites)
Limit == 2

\* the clock stops here
MaxTime == 4

\* checks of one key in one behaviour
MaxChecks == 4

CLEANUP_INTERVAL == Interval

\* a request: the entries of its x-forwarded-for header (split at ','), and x-real-ip;
\* a header that is absent is <<>> or ""
Requests ==
  { [forwarded |-> <<"1.1.1.1", "10.0.0.1">>, realIp |-> "2.2.2.2"],
    [forwarded |-> <<>>, realIp |-> ""] }

Identifiers == {"UPLOAD_RATE_LIMIT"}

\* (forwarded?.split(',')[0]?.trim()) || realIp || 'anonymous'
IpOf(request) ==
  IF Len(request.forwarded) > 0 /\ request.forwarded[1] # "" THEN request.forwarded[1]
  ELSE IF request.realIp # "" THEN request.realIp
  ELSE "anonymous"

\* `${identifier}:${ip}`
KeyOf(request, identifier) == identifier \o ":" \o IpOf(request)

Keys == { KeyOf(r, id) : r \in Requests, id \in Identifiers }

\* the filter keeps a timestamp that lies on the edge of the window
InWindow_Closed(timestamps, t) == SelectSeq(timestamps, LAMBDA ts : ts >= t - Interval)

\* timestamps.filter(timestamp => timestamp > windowStart)
InWindow(timestamps, t) == SelectSeq(timestamps, LAMBDA ts : ts > t - Interval)

\* the sweep empties the map
Cleanup_Clears(map, t) == << >>

\* cleanup(): every entry not swept for CLEANUP_INTERVAL is pruned, and deleted when empty
Cleanup(map, t) ==
  LET swept == { k \in DOMAIN map : map[k].lastCleanup < t - CLEANUP_INTERVAL }
      gone == { k \in swept : InWindow(map[k].timestamps, t) = <<>> }
  IN  [k \in (DOMAIN map) \ gone |->
         IF k \in swept
         THEN [timestamps |-> InWindow(map[k].timestamps, t), lastCleanup |-> t]
         ELSE map[k]]

\* tokens.get(key) || { timestamps: [], lastCleanup: now }
TokenDataOf(map, key, t) ==
  IF key \in DOMAIN map THEN map[key] ELSE [timestamps |-> <<>>, lastCleanup |-> t]

\* the test admits a request when the window holds exactly `limit` already
Exceeded_Late(timestamps, limit) == Len(timestamps) > limit

\* tokenData.timestamps.length >= limit
Exceeded(timestamps, limit) == Len(timestamps) >= limit

\* the timestamp is pushed before the test, so the throwing branch has recorded it
Rejected_Recorded(map, key, pruned, t) ==
  IF key \in DOMAIN map
  THEN [map EXCEPT ![key].timestamps = Append(pruned, t)]
  ELSE map

\* the map after a check that throws: the filter has been assigned to the entry's
\* timestamps if the entry was in the map; nothing is set
RejectedMap(map, key, pruned, t) ==
  IF key \in DOMAIN map
  THEN [map EXCEPT ![key].timestamps = pruned]
  ELSE map

\* the timestamp of an admitted check is pushed to every entry of the map
AdmittedMap_AllKeys(map, key, pruned, t) ==
  [k \in (DOMAIN map) \cup {key} |->
     IF k = key THEN [timestamps |-> Append(pruned, t), lastCleanup |-> t]
     ELSE [map[k] EXCEPT !.timestamps = Append(@, t)]]

\* the map after a check that returns true
AdmittedMap(map, key, pruned, t) ==
  [k \in (DOMAIN map) \cup {key} |->
     IF k = key THEN [timestamps |-> Append(pruned, t), lastCleanup |-> t] ELSE map[k]]

\* check without lines 46-48, run on the times of the checks c of one key from
\* the j-th on; timestamps is the key's entry.  The outcome of every check.
RECURSIVE Unswept(_, _, _)
Unswept(c, j, timestamps) ==
  IF j > Len(c) THEN <<>>
  ELSE LET pruned == InWindow(timestamps, c[j].at)
       IN  IF Exceeded(pruned, Limit)
           THEN <<FALSE>> \o Unswept(c, j + 1, pruned)
           ELSE <<TRUE>> \o Unswept(c, j + 1, Append(pruned, c[j].at))

LimiterInit ==
  /\ now = 0
  /\ tokens = <<>>
  /\ checks = [k \in Keys |-> <<>>]

\* time passes
Advance ==
  /\ now < MaxTime
  /\ now' = now + 1
  /\ UNCHANGED <<tokens, checks>>
  /\ UNCHANGED <<pipeline, pageVars, serviceVars, elsewhere>>

\* limiter.check(request, limit, identifier); the body has no await, so it runs in
\* one piece.  sweep is the outcome of Math.random() < 0.1.
Check ==
  /\ \E request \in Requests, identifier \in Identifiers, sweep \in BOOLEAN :
       LET key == KeyOf(request, identifier)
           map == IF sweep THEN Cleanup(tokens, now) ELSE tokens
           pruned == InWindow(TokenDataOf(map, key, now).timestamps, now)
       IN  /\ Len(checks[key]) < MaxChecks
           /\ IF Exceeded(pruned, Limit)
              THEN /\ tokens' = RejectedMap(map, key, pruned, now)
                   /\ checks' = [checks EXCEPT ![key] = Append(@, [at |-> now, ok |-> FALSE])]
              ELSE /\ tokens' = AdmittedMap(map, key, pruned, now)
                   /\ checks' = [checks EXCEPT ![key] = Append(@, [at |-> now, ok |-> TRUE])]
  /\ UNCHANGED now
  /\ UNCHANGED <<pipeline, pageVars, serviceVars, elsewhere>>

----------------------------------------------------------------------------
(* The upload page (app/upload/page.tsx) and its two components,            *)
(* LocalPhotoUploader and PhotoEditor.  The page shows the editor while     *)
(* step = 'edit' and its photos are not empty, the uploader otherwise; a    *)
(* component that is not shown is unmounted and its state is gone.          *)

\* the maxPhotos prop of LocalPhotoUploader (10 on the upload page)
maxPhotos == 2

\* items staged in one session
MaxItems == 3

\* files the user picks: none of them is compressed before it is posted
StagedFiles == { f \in Files : f.type = "video" \/ f.size <= MAX_FILE_SIZE }

\* the files of one drop
Drops == SeqsUpTo(StagedFiles, 2) \ { <<>> }

\* the values of LocalPhoto.status in types/photo.ts, and the order the type suggests
StatusEdges ==
  { <<"pending", "ready">>, <<"ready", "posting">>, <<"posting", "posted">>,
    <<"posting", "error">>, <<"error", "posting">> }

Ids(list) == { list[k].id : k \in 1..Len(list) }

\* the object onDrop builds for an accepted file
LocalPhoto(id, file) == [id |-> id, file |-> file, status |-> "pending"]

NewPhotos(files, first) == [k \in 1..Len(files) |-> LocalPhoto(first + k - 1, files[k])]

\* acceptedFiles.slice(0, remainingSlots) when there are more files than slots
Accepted(files, remainingSlots) ==
  IF Len(files) > remainingSlots THEN SubSeq(files, 1, remainingSlots) ELSE files

EditorMounted == step = "edit" /\ Len(pagePhotos) > 0

UploaderMounted == ~EditorMounted

PageInit ==
  /\ step = "upload"
  /\ pagePhotos = <<>>
  /\ uploaderPhotos = <<>>
  /\ editorPhotos = <<>>
  /\ isPublishing = FALSE
  /\ runMounted = FALSE
  /\ nextId = 1
  /\ deleted = {}
  /\ kept = {}
  /\ removedAsPosted = {}
  /\ rendered = 0
  /\ earlier = <<>>

\* LocalPhotoUploader.onDrop(acceptedFiles).  onDrop and the dropzone's `disabled`
\* are those of the last render (useCallback over photos.length); setPhotos appends
\* to the list as it is now.
Dropped ==
  /\ UploaderMounted
  /\ rendered < maxPhotos
  /\ \E files \in Drops :
       LET remainingSlots == maxPhotos - rendered
           acceptedFiles == Accepted(files, remainingSlots)
       IN  /\ nextId + Len(acceptedFiles) - 1 <= MaxItems
           /\ uploaderPhotos' = uploaderPhotos \o NewPhotos(acceptedFiles, nextId)
           /\ nextId' = nextId + Len(acceptedFiles)
  /\ UNCHANGED <<step, pagePhotos, editorPhotos, isPublishing, runMounted, deleted, kept,
                 removedAsPosted, earlier>>
  /\ UNCHANGED pipeline
  /\ UNCHANGED offPage

\* a drop is handled; the component has yet to render
OnDrop == Dropped /\ UNCHANGED rendered

\* a drop is handled and the component renders before anything else happens
OnDropRendered == Dropped /\ rendered' = Len(uploaderPhotos')

\* LocalPhotoUploader renders with the list as it is now
UploaderRenders ==
  /\ UploaderMounted
  /\ rendered # Len(uploaderPhotos)
  /\ rendered' = Len(uploaderPhotos)
  /\ UNCHANGED <<step, pagePhotos, uploaderPhotos, editorPhotos, isPublishing, runMounted,
                 nextId, deleted, kept, removedAsPosted, earlier>>
  /\ UNCHANGED pipeline
  /\ UNCHANGED offPage

\* the buttons the user clicks are those of a render of the list as it is now
UpToDate == rendered = Len(uploaderPhotos)

\* prev.filter(p => p.id !== photoId)
FilterOut(list, photoId) == SelectSeq(list, LAMBDA p : p.id # photoId)

\* LocalPhotoUploader.removePhoto(photoId)
RemovePhoto ==
  /\ UploaderMounted
  /\ UpToDate
  /\ \E photoId \in Ids(uploaderPhotos) :
       /\ uploaderPhotos' = FilterOut(uploaderPhotos, photoId)
       /\ deleted' = deleted \cup {photoId}
  /\ rendered' = Len(uploaderPhotos')
  /\ UNCHANGED <<step, pagePhotos, editorPhotos, isPublishing, runMounted, nextId, kept,
                 removedAsPosted, earlier>>
  /\ UNCHANGED pipeline
  /\ UNCHANGED offPage

\* LocalPhotoUploader.clearAll()
ClearAll ==
  /\ UploaderMounted
  /\ UpToDate
  /\ Len(uploaderPhotos) > 0
  /\ uploaderPhotos' = <<>>
  /\ rendered' = 0
  /\ deleted' = deleted \cup Ids(uploaderPhotos)
  /\ UNCHANGED <<step, pagePhotos, editorPhotos, isPublishing, runMounted, nextId, kept,
                 removedAsPosted, earlier>>
  /\ UNCHANGED pipeline
  /\ UNCHANGED offPage

\* LocalPhotoUploader.handleContinue() -> UploadPage.handlePhotosReady(photos); the
\* editor mounts and its effect copies the page's photos
HandleContinue ==
  /\ UploaderMounted
  /\ UpToDate
  /\ Len(uploaderPhotos) > 0
  /\ pagePhotos' = uploaderPhotos
  /\ step' = "edit"
  /\ editorPhotos' = uploaderPhotos
  /\ isPublishing' = FALSE
  /\ uploaderPhotos' = <<>>
  /\ rendered' = 0
  /\ UNCHANGED <<runMounted, nextId, deleted, kept, removedAsPosted, earlier>>
  /\ UNCHANGED pipeline
  /\ UNCHANGED offPage

\* UploadPage.handleBackToUpload(); a run the editor started goes on without it
HandleBackToUpload ==
  /\ EditorMounted
  /\ step' = "upload"
  /\ editorPhotos' = <<>>
  /\ isPublishing' = FALSE
  /\ runMounted' = FALSE
  /\ UNCHANGED <<pagePhotos, uploaderPhotos, nextId, deleted, kept, removedAsPosted,
                 rendered, earlier>>
  /\ UNCHANGED pipeline
  /\ UNCHANGED offPage

\* PhotoEditor.handleRemovePhoto(photoId); the button is there during a run too
HandleRemovePhoto ==
  /\ EditorMounted
  /\ \E photoId \in Ids(editorPhotos) :
       /\ editorPhotos' = FilterOut(editorPhotos, photoId)
       /\ deleted' = deleted \cup {photoId}
  /\ UNCHANGED <<step, pagePhotos, uploaderPhotos, isPublishing, runMounted, nextId, kept,
                 removedAsPosted, rendered, earlier>>
  /\ UNCHANGED pipeline
  /\ UNCHANGED offPage

\* postParams of handlePublish; id stands for the identity of the request object
PostParams(list) == [k \in 1..Len(list) |-> [id |-> list[k].id, file |-> list[k].file]]

\* the items of the run of pc that have no result yet
ItemsLeft == Len(photos) - Len(log)

\* PhotoEditor.handlePublish() up to `await postMultiplePhotos(...)`; the button is
\* rendered while photos.length > 0 && !isPublishing
Publish ==
  /\ EditorMounted
  /\ Len(editorPhotos) > 0
  /\ ~isPublishing
  /\ isPublishing' = TRUE
  /\ runMounted' = TRUE
  /\ photos' = PostParams(editorPhotos)
  /\ originalPhotos' = PostParams(editorPhotos)
  /\ successful' = <<>>
  /\ failed' = <<>>
  /\ progressCalls' = <<>>
  /\ log' = <<>>
  /\ cooldowns' = <<>>
  /\ Enter(PostParams(editorPhotos), 0, <<>>, <<>>, {}, <<>>)
  /\ UNCHANGED <<variant, run, elapsed, firstLog, dropped>>
  /\ UNCHANGED <<step, pagePhotos, uploaderPhotos, editorPhotos, nextId, deleted, kept,
                 removedAsPosted, rendered>>
  /\ UNCHANGED offPage

\* handlePublish while no run is in progress
HandlePublish ==
  /\ pc = "idle"
  /\ UNCHANGED earlier
  /\ Publish

\* handlePublish while a run is in progress.  isPublishing is state of the editor
\* instance: the run of an editor that was unmounted since (Back to upload) does
\* not hide the button of the next editor.  That run goes on next to the new one;
\* the model keeps of it the number of its items left.
HandlePublishBeside ==
  /\ pc \notin {"idle", "returned", "threw"}
  /\ earlier' = Append(earlier, ItemsLeft)
  /\ Publish

\* UploadPage.handlePublishComplete(), and what the unmount of the editor makes of
\* its state
PageCleared ==
  /\ pagePhotos' = <<>>
  /\ step' = "upload"
  /\ editorPhotos' = <<>>
  /\ isPublishing' = FALSE
  /\ runMounted' = FALSE
  /\ uploaderPhotos' = IF UploaderMounted THEN uploaderPhotos ELSE <<>>
  /\ rendered' = IF UploaderMounted THEN rendered ELSE 0

\* a request of an earlier run settles
EarlierSettles ==
  /\ \E k \in 1..Len(earlier) :
       /\ earlier[k] > 0
       /\ earlier' = [earlier EXCEPT ![k] = @ - 1]
  /\ UNCHANGED <<step, pagePhotos, uploaderPhotos, editorPhotos, isPublishing, runMounted,
                 nextId, deleted, kept, removedAsPosted, rendered>>
  /\ UNCHANGED pipeline
  /\ UNCHANGED offPage

\* an earlier run has returned: its handlePublish goes on after the await, its
\* editor is gone, onPublishComplete(result) clears the page
EarlierReturns ==
  /\ \E k \in 1..Len(earlier) :
       /\ earlier[k] = 0
       /\ earlier' = SubSeq(earlier, 1, k - 1) \o SubSeq(earlier, k + 1, Len(earlier))
  /\ PageCleared
  /\ UNCHANGED <<nextId, deleted, kept, removedAsPosted>>
  /\ UNCHANGED pipeline
  /\ UNCHANGED offPage

FailedFileNames(result) == { result.failed[k].fileName : k \in 1..Len(result.failed) }

\* the filter keeps the names that are not in failedFileNames
AfterPublish_KeepPosted(list, result) ==
  IF result.failureCount = 0 THEN <<>>
  ELSE IF result.successCount > 0
       THEN SelectSeq(list, LAMBDA p : p.file.name \notin FailedFileNames(result))
       ELSE list

\* what handlePublish makes of the editor's list once the run has returned
AfterPublish(list, result) ==
  IF result.failureCount = 0 THEN <<>>
  ELSE IF result.successCount > 0
       THEN SelectSeq(list, LAMBDA p : p.file.name \in FailedFileNames(result))
       ELSE list

\* handlePublish after the await: the editor's own list, then
\* onPublishComplete(result) = UploadPage.handlePublishComplete(), then finally.
\* (The continuation is a microtask of the run's return; the model lets user events
\* in between, which adds behaviours and takes none away.)
PublishDone ==
  /\ pc = "returned"
  /\ LET after == AfterPublish(editorPhotos, ret)
     IN  /\ kept' = IF runMounted THEN Ids(after) ELSE {}
         /\ removedAsPosted' = IF runMounted THEN Ids(editorPhotos) \ Ids(after) ELSE {}
  /\ PageCleared
  /\ pc' = "idle"
  /\ ret' = NoResult
  /\ UNCHANGED <<nextId, deleted, earlier>>
  /\ UNCHANGED <<variant, photos, originalPhotos, run, i, successful, failed, inFlight,
                 elapsed, progressCalls, attempts, log, cooldowns, firstLog, dropped>>
  /\ UNCHANGED offPage

----------------------------------------------------------------------------
(* ScoreStreamService.getUserGames: the "cards" version of                  *)
(* src/lib/scorestream.ts (one call, one entry per game card) and the       *)
(* "fanout" version (favorite teams, then one activity call per team).      *)

\* games in one response
MaxGames == 2

\* startDateTime strings; the first two name the same instant
StartTimes == {"2024-03-01T18:00:00Z", "2024-03-01T19:00:00+01:00", "2024-03-08T18:00:00Z"}

\* new Date(s).getTime(), in minutes
GetTime(s) ==
  CASE s = "2024-03-01T18:00:00Z" -> 28488600
    [] s = "2024-03-01T19:00:00+01:00" -> 28488600
    [] s = "2024-03-08T18:00:00Z" -> 28498680

Team(id, teamName, minTeamName) ==
  [teamId |-> id, teamName |-> teamName, minTeamName |-> minTeamName]

\* what teamMap.get gives for an id it does not hold: undefined, whose ?.fields are undefined
NoTeam == Team(0, Undefined, Undefined)

Game(gameId, startDateTime) ==
  [gameId |-> gameId, homeTeamId |-> 1, awayTeamId |-> 2, startDateTime |-> startDateTime]

Card(gameId, cardType) == [gameId |-> gameId, cardType |-> cardType]

\* what a call of callScoreStreamAPI settles with
Result(cards, games, teams) == [kind |-> "result", cards |-> cards, games |-> games, teams |-> teams]
NoResultField == [kind |-> "noresult", cards |-> <<>>, games |-> <<>>, teams |-> <<>>]
CallFailed == [kind |-> "reject", cards |-> <<>>, games |-> <<>>, teams |-> <<>>]

\* the last element of list whose field teamId is id (Map.set: the later one wins)
LastTeam(list, id) ==
  list[CHOOSE k \in 1..Len(list) :
         list[k].teamId = id /\ \A j \in (k + 1)..Len(list) : list[j].teamId # id]

\* teamMap after teamData.forEach(team => teamMap.set(team.teamId, team))
TeamMapOf(list) == [id \in { list[k].teamId : k \in 1..Len(list) } |-> LastTeam(list, id)]

\* teamMap after respTeams.forEach(team => { if (!teamMap.has(team.teamId)) teamMap.set(...) })
RECURSIVE SetMissing(_, _)
SetMissing(map, list) ==
  IF list = <<>> THEN map
  ELSE LET team == Head(list)
       IN  SetMissing(IF team.teamId \in DOMAIN map THEN map ELSE map @@ (team.teamId :> team),
                      Tail(list))

\* teamMap.get(id)
TeamOf(map, id) == IF id \in DOMAIN map THEN map[id] ELSE NoTeam

\* gameMap.get(id) after gameData.forEach(game => gameMap.set(game.gameId, game))
HasGame(gameData, id) == \E k \in 1..Len(gameData) : gameData[k].gameId = id

GameDetails(gameData, id) ==
  gameData[CHOOSE k \in 1..Len(gameData) :
             gameData[k].gameId = id /\ \A j \in (k + 1)..Len(gameData) : gameData[j].gameId # id]

\* `Team ${id}`
TeamLabel(id) == Str("Team " \o ToString(id))

\* team?.teamName || `Team ${id}` in lib/scorestream.ts,
\* team?.teamName || team?.minTeamName || `Team ${id}` in the fan-out version
DisplayName(team, id) ==
  IF service = "cards"
  THEN Or(team.teamName, TeamLabel(id))
  ELSE Or(Or(team.teamName, team.minTeamName), TeamLabel(id))

\* the object pushed to games
ScoreStreamGame(gameId, details, map) ==
  [gameId |-> gameId,
   homeTeamId |-> details.homeTeamId,
   awayTeamId |-> details.awayTeamId,
   homeTeamName |-> DisplayName(TeamOf(map, details.homeTeamId), details.homeTeamId),
   awayTeamName |-> DisplayName(TeamOf(map, details.awayTeamId), details.awayTeamId),
   startDateTime |-> details.startDateTime]

\* gameCards.forEach(...) of lib/scorestream.ts
RECURSIVE CollectCards(_, _, _)
CollectCards(cards, gameData, map) ==
  IF cards = <<>> THEN <<>>
  ELSE LET card == Head(cards)
           rest == CollectCards(Tail(cards), gameData, map)
       IN  IF card.cardType = "game" /\ HasGame(gameData, card.gameId)
           THEN <<ScoreStreamGame(card.gameId, GameDetails(gameData, card.gameId), map)>> \o rest
           ELSE rest

\* gameData.forEach(...) of the fan-out version: a game id is taken once
RECURSIVE CollectGames(_, _, _, _)
CollectGames(gameData, map, seen, games) ==
  IF gameData = <<>> THEN [seen |-> seen, games |-> games]
  ELSE LET game == Head(gameData)
       IN  IF game.gameId # 0 /\ game.gameId \notin seen
           THEN CollectGames(Tail(gameData), map, seen \cup {game.gameId},
                             Append(games, ScoreStreamGame(game.gameId, game, map)))
           ELSE CollectGames(Tail(gameData), map, seen, games)

\* for (const resp of teamResponses) of the fan-out version
RECURSIVE CollectResponses(_, _, _, _)
CollectResponses(resps, map, seen, games) ==
  IF resps = <<>> THEN games
  ELSE LET resp == Head(resps)
       IN  IF resp.kind # "result"
           THEN CollectResponses(Tail(resps), map, seen, games)
           ELSE LET map2 == SetMissing(map, resp.teams)
                    acc == CollectGames(resp.games, map2, seen, games)
                IN  CollectResponses(Tail(resps), map2, acc.seen, acc.games)

\* the comparator with its operands swapped
Compare_Ascending(a, b) == GetTime(a.startDateTime) - GetTime(b.startDateTime)

\* (a, b) => new Date(b.startDateTime).getTime() - new Date(a.startDateTime).getTime()
Compare(a, b) == GetTime(b.startDateTime) - GetTime(a.startDateTime)

\* x put behind every element that does not sort after it
Insert(sorted, x) ==
  LET after == { k \in 1..Len(sorted) : Compare(sorted[k], x) > 0 }
      p == IF after = {} THEN Len(sorted) + 1 ELSE CHOOSE k \in after : \A j \in after : k <= j
  IN  SubSeq(sorted, 1, p - 1) \o <<x>> \o SubSeq(sorted, p, Len(sorted))

\* games.sort(compare): Array.prototype.sort is stable
RECURSIVE SortGames(_)
SortGames(games) ==
  IF games = <<>> THEN <<>>
  ELSE Insert(SortGames(SubSeq(games, 1, Len(games) - 1)), games[Len(games)])

ServiceIdle ==
  /\ gpc = "idle"
  /\ teamIds = <<>>
  /\ teamMap = <<>>
  /\ heard = <<>>
  /\ collected = <<>>
  /\ userGames = <<>>
  /\ thrown = ""

ServiceInit == service = "cards" /\ ServiceIdle

offService == <<pipeline, pageVars, limiterVars, elsewhere>>

\* a caller calls ScoreStreamService.getUserGames(userId): up to the first await
GetUserGames ==
  /\ gpc = "idle"
  /\ gpc' = "first"
  /\ UNCHANGED <<service, teamIds, teamMap, heard, collected, userGames, thrown>>
  /\ UNCHANGED offService

\* callScoreStreamAPI: what a call that failed throws (fetch rejected, status
\* not ok, body not JSON)
ApiError == "ScoreStream API error"

\* the catch of getUserGames: whatever was thrown, one generic Error leaves
Caught(error) == "Failed to fetch games from ScoreStream"

\* lib/scorestream.ts: users.activity.cards.search settles with one of R
CardsRespond(R) ==
  /\ service = "cards"
  /\ gpc = "first"
  /\ \E resp \in R :
       /\ heard' = Append(heard, resp)
       /\ IF resp.kind # "result"
          THEN /\ gpc' = "threw"
               /\ thrown' = Caught(IF resp.kind = "reject" THEN ApiError
                                                          ELSE "Invalid ScoreStream response")
               /\ UNCHANGED <<teamMap, collected, userGames>>
          ELSE LET map == TeamMapOf(resp.teams)
                   games == CollectCards(resp.cards, resp.games, map)
               IN  /\ teamMap' = map
                   /\ collected' = games
                   /\ userGames' = SortGames(games)
                   /\ gpc' = "returned"
                   /\ UNCHANGED thrown
  /\ UNCHANGED <<service, teamIds>>
  /\ UNCHANGED offService

\* fan-out version: users.getFavoriteTeams settles with one of R
FavoriteTeamsRespond(R) ==
  /\ service = "fanout"
  /\ gpc = "first"
  /\ \E resp \in R :
       /\ heard' = Append(heard, resp)
       /\ IF resp.kind = "reject"
          THEN /\ gpc' = "threw"
               /\ thrown' = Caught(ApiError)
               /\ UNCHANGED <<teamIds, teamMap>>
          ELSE LET teamList == SelectSeq(resp.teams, LAMBDA team : team.teamId # 0)
               IN  /\ teamIds' = [k \in 1..Len(teamList) |-> teamList[k].teamId]
                   /\ teamMap' = TeamMapOf(teamList)
                   /\ gpc' = IF teamList = <<>> THEN "returned" ELSE "activity"
                   /\ UNCHANGED thrown
  /\ UNCHANGED <<service, collected, userGames>>
  /\ UNCHANGED offService

\* fan-out version: every teams.activity.cards.search has settled with one of R
\* (Promise.all keeps the order of teamIds; a call that failed counts as null)
ActivityRespond(R) ==
  /\ service = "fanout"
  /\ gpc = "activity"
  /\ \E teamResponses \in [1..Len(teamIds) -> R] :
       LET games == CollectResponses(teamResponses, teamMap, {}, <<>>)
       IN  /\ heard' = heard \o teamResponses
           /\ collected' = games
           /\ userGames' = SortGames(games)
           /\ gpc' = "returned"
  /\ UNCHANGED <<service, teamIds, teamMap, thrown>>
  /\ UNCHANGED offService

----------------------------------------------------------------------------
(* /api/health (src/app/api/health/route.ts)                                *)

\* the values of healthData.checks: a boolean, a number or a string
Boolean(b) == [t |-> "boolean", b |-> b, n |-> 0, s |-> ""]
Number(n) == [t |-> "number", b |-> FALSE, n |-> n, s |-> ""]
String(s) == [t |-> "string", b |-> FALSE, n |-> 0, s |-> s]

EnvNames == {"NODE_ENV", "SCORESTREAM_API_KEY", "SCORESTREAM_ACCESS_TOKEN", "SCORESTREAM_API_BASE"}

\* value?.length || 0
LengthOrZero(v) == IF v.t = "string" THEN Len(v.s) ELSE 0

\* healthData.checks, in the order of its properties
Checks(e) ==
  << Boolean(TRUE),
     Boolean(Truthy(e["SCORESTREAM_API_KEY"])),
     Number(LengthOrZero(e["SCORESTREAM_API_KEY"])),
     Boolean(Truthy(e["SCORESTREAM_ACCESS_TOKEN"])),
     Number(LengthOrZero(e["SCORESTREAM_ACCESS_TOKEN"])),
     String(Or(e["SCORESTREAM_API_BASE"], Str("not set")).s) >>

\* check === true
IsTrue(check) == check.t = "boolean" /\ check.b

\* Object.values(healthData.checks).every(check => check === true)
AllChecksPass(c) == \A k \in 1..Len(c) : IsTrue(c[k])

NoResponse == [method |-> "", status |-> 0]

HealthInit ==
  /\ env = [n \in EnvNames |-> Undefined]
  /\ health = NoResponse

\* GET /api/health
HealthGet ==
  /\ health' = [method |-> "GET", status |-> IF AllChecksPass(Checks(env)) THEN 200 ELSE 503]
  /\ UNCHANGED env
  /\ UNCHANGED <<pipeline, pageVars, limiterVars, serviceVars, routeVars, selectorVars>>

\* HEAD /api/health
HealthHead ==
  /\ health' = [method |-> "HEAD", status |-> 200]
  /\ UNCHANGED env
  /\ UNCHANGED <<pipeline, pageVars, limiterVars, serviceVars, routeVars, selectorVars>>

----------------------------------------------------------------------------
(* The API routes: /api/scorestream-proxy (app/api/scorestream-proxy/       *)
(* route.ts and the later version in part_007) and /api/cloudinary-upload   *)
(* (part_004).  One request is followed from its arrival to its response    *)
(* and to the end of the remote calls made for it; bodies parse.            *)

UPLOAD_MAX_FILE_SIZE == 10 * 1024 * 1024

MAX_TOTAL_SIZE == 100 * 1024 * 1024

ALLOWED_TYPES == {"image/jpeg", "image/jpg", "image/png", "image/gif", "image/webp"}

MB == 1024 * 1024

\* a good file, one that is too large, one of a type that is not allowed
GoodFile == [size |-> MB, type |-> "image/jpeg"]
LargeFile == [size |-> 11 * MB, type |-> "image/jpeg"]
PdfFile == [size |-> MB, type |-> "application/pdf"]

\* the files of one upload request
UploadFileLists ==
  { <<>>, <<GoodFile>>, <<LargeFile>>, <<PdfFile>>, <<GoodFile, GoodFile>>,
    <<GoodFile, PdfFile>>, <<PdfFile, GoodFile>>, <<GoodFile, LargeFile>> }

\* the client of the upload requests
UploadClient == [forwarded |-> <<"1.1.1.1", "10.0.0.1">>, realIp |-> "2.2.2.2"]

\* userId and gameNumber of an upload request: both there, or one missing
UploadFields == { <<"u", "7">>, <<"", "7">>, <<"u", "">> }

NoHeaders == [forwarded |-> <<>>, realIp |-> ""]

\* route: "proxy" is route.ts, "proxy7" is part_007, "upload" is part_004
Request(route, headers, contentType, method, gameId, picture, files, base64Images, user, gameNumber) ==
  [route |-> route, headers |-> headers, contentType |-> contentType, method |-> method,
   gameId |-> gameId, picture |-> picture, files |-> files, base64Images |-> base64Images,
   userId |-> user, gameNumber |-> gameNumber]

NoRequest == Request("none", NoHeaders, "", Undefined, Undefined, FALSE, <<>>, 0, "", "")

Methods == {Undefined, Str(""), Str("games.get"), Str("games.posts.add")}

ProxyRequests ==
  { Request("proxy", NoHeaders, "json", m, Undefined, FALSE, <<>>, 0, "", "") : m \in Methods }

Proxy7Requests ==
  { Request("proxy7", NoHeaders, "json", m, Undefined, FALSE, <<>>, 0, "", "") : m \in Methods }
    \cup { Request("proxy7", NoHeaders, "multipart", m, g, p, <<>>, 0, "", "") :
             m \in Methods, g \in {Undefined, Str(""), Str("7")}, p \in BOOLEAN }

\* a JSON body may carry files and base64Images, a form only files
UploadRequests ==
  { Request("upload", UploadClient, "multipart", Undefined, Undefined, FALSE, f, 0, ug[1], ug[2]) :
      f \in UploadFileLists, ug \in UploadFields }
    \cup { Request("upload", UploadClient, "json", Undefined, Undefined, FALSE, f, b, ug[1], ug[2]) :
             f \in UploadFileLists, b \in 0..1, ug \in UploadFields }

\* what fetch settles with; body: a JSON-RPC result, a JSON-RPC error, or no JSON
FetchAnswers ==
  { [kind |-> "reject", ok |-> FALSE, status |-> 0, body |-> ""] }
    \cup { [kind |-> "response", ok |-> o.ok, status |-> o.status, body |-> b] :
             o \in { [ok |-> TRUE, status |-> 200], [ok |-> FALSE, status |-> 500] },
             b \in {"result", "error", "text"} }

RECURSIVE TotalSize(_)
TotalSize(files) == IF files = <<>> THEN 0 ELSE files[1].size + TotalSize(Tail(files))

\* the first k with pred(files[k]), 0 when there is none
First(files, pred(_)) ==
  IF \E k \in 1..Len(files) : pred(files[k])
  THEN CHOOSE k \in 1..Len(files) : pred(files[k]) /\ \A j \in 1..(k - 1) : ~pred(files[j])
  ELSE 0

TooLarge(file) == file.size > UPLOAD_MAX_FILE_SIZE

Disallowed(file) == file.type \notin ALLOWED_TYPES

\* part_004 lines 57-154, after the rate limit: the status the handler returns
\* with before Promise.allSettled (0: it goes on), and the number of upload
\* calls it has made by then
UploadChecks(r) ==
  IF r.contentType = "multipart" /\ r.files = <<>> THEN [status |-> 400, started |-> 0]
  ELSE IF r.userId = "" \/ r.gameNumber = "" THEN [status |-> 400, started |-> 0]
  ELSE IF r.files = <<>> /\ r.base64Images = 0 THEN [status |-> 400, started |-> 0]
  ELSE IF First(r.files, TooLarge) # 0 THEN [status |-> 400, started |-> 0]
  ELSE IF TotalSize(r.files) > MAX_TOTAL_SIZE THEN [status |-> 400, started |-> 0]
  ELSE IF First(r.files, Disallowed) # 0
       THEN [status |-> 400, started |-> First(r.files, Disallowed) - 1]
  ELSE [status |-> 0, started |-> Len(r.files) + r.base64Images]

\* the upload calls made for files are at their await of file.arrayBuffer(), those
\* for base64 images have called cloudinary.uploader.upload
StartedUploads(r, started) ==
  [k \in 1..started |-> IF k <= Len(r.files) THEN "buffer" ELSE "remote"]

\* the uploads whose call of cloudinary.uploader.upload has been made
RemoteCalls == { k \in 1..Len(uploads) : uploads[k] # "buffer" }

RoutesInit ==
  /\ req = NoRequest
  /\ rpc = "idle"
  /\ uploads = <<>>
  /\ fetched = FALSE
  /\ response = 0

\* POST /api/cloudinary-upload up to its first return or to Promise.allSettled
UploadPost(R) ==
  /\ rpc \in {"idle", "done"}
  /\ \E r \in R, sweep \in BOOLEAN :
       LET key == KeyOf(r.headers, "UPLOAD_RATE_LIMIT")
           map == IF sweep THEN Cleanup(tokens, now) ELSE tokens
           pruned == InWindow(TokenDataOf(map, key, now).timestamps, now)
           checked == UploadChecks(r)
       IN  /\ Len(checks[key]) < MaxChecks
           /\ req' = r
           /\ fetched' = FALSE
           /\ IF Exceeded(pruned, Limit)
              THEN /\ tokens' = RejectedMap(map, key, pruned, now)
                   /\ checks' = [checks EXCEPT ![key] = Append(@, [at |-> now, ok |-> FALSE])]
                   /\ response' = 429
                   /\ uploads' = <<>>
                   /\ rpc' = "done"
              ELSE /\ tokens' = AdmittedMap(map, key, pruned, now)
                   /\ checks' = [checks EXCEPT ![key] = Append(@, [at |-> now, ok |-> TRUE])]
                   /\ response' = checked.status
                   /\ uploads' = StartedUploads(r, checked.started)
                   /\ rpc' = IF checked.status = 0 THEN "settling" ELSE "done"
  /\ UNCHANGED now
  /\ UNCHANGED <<pipeline, pageVars, serviceVars, healthVars, selectorVars>>

\* uploadFileToCloudinary: file.arrayBuffer() is there, cloudinary.uploader.upload is called
UploadBufferDone ==
  /\ \E k \in 1..Len(uploads) :
       /\ uploads[k] = "buffer"
       /\ uploads' = [uploads EXCEPT ![k] = "remote"]
  /\ UNCHANGED <<req, rpc, fetched, response>>
  /\ UNCHANGED <<pipeline, pageVars, limiterVars, serviceVars, healthVars, selectorVars>>

\* the callback of cloudinary.uploader.upload
UploadSettles ==
  /\ \E k \in 1..Len(uploads), outcome \in {"fulfilled", "rejected"} :
       /\ uploads[k] = "remote"
       /\ uploads' = [uploads EXCEPT ![k] = outcome]
  /\ UNCHANGED <<req, rpc, fetched, response>>
  /\ UNCHANGED <<pipeline, pageVars, limiterVars, serviceVars, healthVars, selectorVars>>

\* Promise.allSettled is through: the handler answers with the two lists
UploadRespond ==
  /\ rpc = "settling"
  /\ req.route = "upload"
  /\ \A k \in 1..Len(uploads) : uploads[k] \in {"fulfilled", "rejected"}
  /\ response' = 200
  /\ rpc' = "done"
  /\ UNCHANGED <<req, uploads, fetched>>
  /\ UNCHANGED <<pipeline, pageVars, limiterVars, serviceVars, healthVars, selectorVars>>

\* route.ts lines 13-30 and part_007 lines 13-71, 189-197: the status the handler
\* returns with before fetch, 0 when it goes on to fetch
ProxyChecks(r, e) ==
  IF r.route = "proxy"
  THEN IF ~Truthy(r.method) THEN 400
       ELSE IF ~Truthy(e["SCORESTREAM_API_KEY"]) THEN 500
       ELSE 0
  ELSE IF r.contentType = "multipart"
  THEN IF r.method # Str("games.posts.add") THEN 400
       ELSE IF ~Truthy(r.gameId) THEN 400
       ELSE IF ~r.picture THEN 400
       ELSE IF ~Truthy(e["SCORESTREAM_ACCESS_TOKEN"]) THEN 500
       ELSE 0
  ELSE IF ~Truthy(r.method) THEN 400 ELSE 0

\* the status the proxy answers with once fetch has settled
ProxyStatus(r, answer) ==
  IF r.route = "proxy"
  THEN IF answer.kind = "reject" THEN 500
       ELSE IF ~answer.ok THEN answer.status
       ELSE IF answer.body = "text" THEN 500
       ELSE IF answer.body = "error" THEN 400
       ELSE 200
  ELSE IF answer.kind = "reject" THEN 502
  ELSE IF r.contentType = "multipart"
  THEN IF answer.body = "error" THEN 400
       ELSE IF ~answer.ok THEN answer.status
       ELSE 200
  ELSE IF answer.body = "text" THEN 502
  ELSE IF answer.body = "error" THEN 400
  ELSE 200

\* POST /api/scorestream-proxy up to its first return or to its fetch
ProxyPost(R) ==
  /\ rpc \in {"idle", "done"}
  /\ \E r \in R :
       /\ req' = r
       /\ response' = ProxyChecks(r, env)
       /\ fetched' = (ProxyChecks(r, env) = 0)
       /\ rpc' = IF ProxyChecks(r, env) = 0 THEN "fetch" ELSE "done"
  /\ uploads' = <<>>
  /\ UNCHANGED <<pipeline, pageVars, limiterVars, serviceVars, healthVars, selectorVars>>

\* fetch settles with one of A
ProxyFetchSettles(A) ==
  /\ rpc = "fetch"
  /\ \E answer \in A : response' = ProxyStatus(req, answer)
  /\ rpc' = "done"
  /\ UNCHANGED <<req, uploads, fetched>>
  /\ UNCHANGED <<pipeline, pageVars, limiterVars, serviceVars, healthVars, selectorVars>>

----------------------------------------------------------------------------
(* GameSelector (src/components/GameSelector.tsx).  The file holds two      *)
(* versions: "refresh" (lines 1-190: fetchGames outside the effect, a       *)
(* refresh button) and "guarded" (lines 193-: fetchGames inside the effect, *)
(* every setState after the await under `if (!cancelled)`).  The flag       *)
(* `cancelled` of an effect run is true once its cleanup has run: run k is  *)
(* cancelled iff k # live.                                                  *)

\* effect runs of one behaviour
MaxEffects == 3

DEBOUNCE_MS == 300

\* the clock of the selector moves in thirds of the delay
DebounceStep == DEBOUNCE_MS \div 3

UserIds == {"", "a", "b"}

\* !userId || userId.trim() === ''
Blank(u) == u = "" \/ u = " "

NoGames == [effect |-> 0, length |-> 0]

NoError == [effect |-> 0, message |-> ""]

\* what getUserGames settles with: a list with games, an empty list, an Error
LookupResults == {"games", "empty", "threw"}

SelectorInit ==
  /\ selector = "refresh"
  /\ userId = ""
  /\ live = 0
  /\ effects = 0
  /\ timers = {}
  /\ lookups = {}
  /\ gamesShown = NoGames
  /\ errorShown = NoError
  /\ loading = FALSE
  /\ currentFor = 0
  /\ issued = <<>>

\* the cleanup returned by effect run k leaves its timer pending
CleanedUp_Keeps(pending, k) == pending

\* the cleanup returned by effect run k: clearTimeout(timeoutId)
CleanedUp(pending, k) == { t \in pending : t.effect # k }

\* the effect of [userId, refreshKey] runs for u, after the cleanup of the run before
RunEffect(u) ==
  /\ currentFor' = 0
  /\ IF Blank(u)
     THEN /\ gamesShown' = NoGames
          /\ errorShown' = NoError
          /\ live' = 0
          /\ timers' = CleanedUp(timers, live)
          /\ UNCHANGED effects
     ELSE /\ effects' = effects + 1
          /\ live' = effects + 1
          /\ timers' = CleanedUp(timers, live)
                         \cup {[effect |-> effects + 1, userId |-> u, elapsed |-> 0]}
          /\ UNCHANGED <<gamesShown, errorShown>>
  /\ UNCHANGED <<selector, lookups, loading, issued>>

\* the parent renders the selector with another userId
SetUserId ==
  /\ effects < MaxEffects
  /\ \E u \in UserIds \ {userId} :
       /\ userId' = u
       /\ RunEffect(u)
  /\ UNCHANGED <<pipeline, pageVars, limiterVars, serviceVars, healthVars, routeVars>>

\* handleRefresh: setRefreshKey(prev => prev + 1); its buttons are not rendered
\* while loading or without a userId
HandleRefresh ==
  /\ selector = "refresh"
  /\ effects < MaxEffects
  /\ userId # ""
  /\ ~loading
  /\ UNCHANGED userId
  /\ RunEffect(userId)
  /\ UNCHANGED <<pipeline, pageVars, limiterVars, serviceVars, healthVars, routeVars>>

\* time passes
SelectorTick ==
  /\ timers # {}
  /\ \E t \in timers : t.elapsed < DEBOUNCE_MS
  /\ timers' = { [t EXCEPT !.elapsed = IF @ < DEBOUNCE_MS THEN @ + DebounceStep ELSE @] :
                 t \in timers }
  /\ currentFor' = IF currentFor < DEBOUNCE_MS THEN currentFor + DebounceStep ELSE currentFor
  /\ UNCHANGED <<selector, userId, live, effects, lookups, gamesShown, errorShown, loading,
                 issued>>
  /\ UNCHANGED <<pipeline, pageVars, limiterVars, serviceVars, healthVars, routeVars>>

\* the callback of setTimeout runs: fetchGames up to its await ("refresh" asks
\* `!cancelled` first)
TimerFires300 ==
  /\ \E t \in timers :
       /\ t.elapsed >= DEBOUNCE_MS
       /\ timers' = timers \ {t}
       /\ IF selector = "refresh" /\ t.effect # live
          THEN UNCHANGED <<lookups, errorShown, loading, issued>>
          ELSE /\ loading' = TRUE
               /\ errorShown' = NoError
               /\ lookups' = lookups \cup {[effect |-> t.effect, userId |-> t.userId]}
               /\ issued' = Append(issued, [effect |-> t.effect, userId |-> t.userId,
                                            current |-> userId, stayed |-> currentFor])
  /\ UNCHANGED <<selector, userId, live, effects, gamesShown, currentFor>>
  /\ UNCHANGED <<pipeline, pageVars, limiterVars, serviceVars, healthVars, routeVars>>

\* fetchGames after the await: getUserGames of one lookup has settled with one of R
LookupSettles(R) ==
  /\ \E l \in lookups, r \in R :
       /\ lookups' = lookups \ {l}
       /\ IF selector = "guarded" /\ l.effect # live
          THEN UNCHANGED <<gamesShown, errorShown, loading>>
          ELSE /\ loading' = FALSE
               /\ gamesShown' = IF r = "games" THEN [effect |-> l.effect, length |-> 1]
                                ELSE [effect |-> l.effect, length |-> 0]
               /\ errorShown' =
                    CASE r = "games" -> errorShown
                      [] r = "empty" -> [effect |-> l.effect, message |-> "No games found for this user ID"]
                      [] r = "threw" -> [effect |-> l.effect, message |-> "Failed to fetch games from ScoreStream"]
  /\ UNCHANGED <<selector, userId, live, effects, timers, currentFor, issued>>
  /\ UNCHANGED <<pipeline, pageVars, limiterVars, serviceVars, healthVars, routeVars>>

ElsewhereInit == HealthInit /\ RoutesInit /\ SelectorInit

----------------------------------------------------------------------------
(* Whole batches, a small set of answers *)

Init ==
  /\ variant \in {"direct", "proxy"}
  /\ photos \in PhotoLists(MaxPhotos)
  /\ originalPhotos = photos
  /\ run = 1
  /\ pc = "idle"
  /\ i = 0
  /\ successful = <<>>
  /\ failed = <<>>
  /\ inFlight = {}
  /\ elapsed = 0
  /\ ret = NoResult
  /\ progressCalls = <<>>
  /\ attempts = <<>>
  /\ log = <<>>
  /\ cooldowns = <<>>
  /\ firstLog = <<>>
  /\ dropped = <<>>
  /\ PageInit
  /\ LimiterInit
  /\ ElsewhereInit
  /\ ServiceInit

Next ==
  \/ Call
  \/ CompressDone
  \/ Respond(BatchResponses)
  \/ Tick
  \/ CooldownDone

Spec == Init /\ [][Next]_vars

----------------------------------------------------------------------------
(* One request, every answer of the model *)

InitPost == Init /\ Len(photos) = 1

NextPost ==
  \/ Call
  \/ CompressDone
  \/ Respond(Responses)

SpecPost == InitPost /\ [][NextPost]_vars

----------------------------------------------------------------------------
(* A batch and one retry of its failures; files that need no compression *)

RetryFiles == { f \in Files : f.size <= MAX_FILE_SIZE \/ f.type = "video" }

RetryResponses == {Posted, Http500}

InitRetry ==
  /\ Init
  /\ \A k \in 1..Len(photos) : photos[k].file \in RetryFiles

NextRetry ==
  \/ Call
  \/ Respond(RetryResponses)
  \/ Tick
  \/ CooldownDone
  \/ Retry

SpecRetry == InitRetry /\ [][NextRetry]_vars

----------------------------------------------------------------------------
(* Whole batches, answers that differ in HTTP status and body *)

NextStatus ==
  \/ Call
  \/ Respond(StatusResponses)
  \/ Tick
  \/ CooldownDone

SpecStatus == InitRetry /\ [][NextStatus]_vars

----------------------------------------------------------------------------
(* Whole batches under the scheduling of the runtime: a pending image load, a     *)
(* pending request and a pending timer each settle in the end.                    *)

LiveResponses == {Posted, Http500, NetworkError}

NextLive ==
  \/ Call
  \/ CompressDone
  \/ Respond(LiveResponses)
  \/ Tick
  \/ CooldownDone

\* a photo that is compressed and a video that is not
LiveFiles == { f \in Files : f.size > MAX_FILE_SIZE }

InitLive ==
  /\ Init
  /\ \A k \in 1..Len(photos) : photos[k].file \in LiveFiles

SpecLive ==
  /\ InitLive
  /\ [][NextLive]_vars
  /\ WF_vars(CompressDone)
  /\ WF_vars(Respond(LiveResponses))
  /\ WF_vars(Tick)
  /\ WF_vars(CooldownDone)

----------------------------------------------------------------------------
(* A session on the upload page: staging, editing, publishing *)

PageResponses == {Posted, Http500}

\* no run of postMultiplePhotos so far
PipelineInit ==
  /\ variant \in {"direct", "proxy"}
  /\ photos = <<>>
  /\ originalPhotos = <<>>
  /\ run = 1
  /\ pc = "idle"
  /\ i = 0
  /\ successful = <<>>
  /\ failed = <<>>
  /\ inFlight = {}
  /\ elapsed = 0
  /\ ret = NoResult
  /\ progressCalls = <<>>
  /\ attempts = <<>>
  /\ log = <<>>
  /\ cooldowns = <<>>
  /\ firstLog = <<>>
  /\ dropped = <<>>

InitPage ==
  /\ PipelineInit
  /\ PageInit
  /\ LimiterInit
  /\ ElsewhereInit
  /\ ServiceInit

NextPage ==
  \/ OnDropRendered
  \/ RemovePhoto
  \/ ClearAll
  \/ HandleContinue
  \/ HandleBackToUpload
  \/ HandleRemovePhoto
  \/ HandlePublish
  \/ Respond(PageResponses)
  \/ Tick
  \/ CooldownDone
  \/ PublishDone

SpecPage == InitPage /\ [][NextPage]_vars

\* the same, and the publish button of a second editor while the run of the first
\* goes on
NextOverlap ==
  \/ OnDropRendered
  \/ RemovePhoto
  \/ ClearAll
  \/ HandleContinue
  \/ HandleBackToUpload
  \/ HandleRemovePhoto
  \/ HandlePublish
  \/ HandlePublishBeside
  \/ Respond(PageResponses)
  \/ Tick
  \/ CooldownDone
  \/ PublishDone
  \/ EarlierSettles
  \/ EarlierReturns

SpecOverlap == InitPage /\ [][NextOverlap]_vars

\* the uploader alone; a drop may be handled before the render of the drop before
NextStaging ==
  \/ OnDrop
  \/ UploaderRenders
  \/ RemovePhoto
  \/ ClearAll

SpecStaging == InitPage /\ [][NextStaging]_vars

----------------------------------------------------------------------------
(* Requests of two clients meeting the rate limiter *)

InitLimiter == InitPage /\ variant = "direct"

NextLimiter ==
  \/ Advance
  \/ Check

SpecLimiter == InitLimiter /\ [][NextLimiter]_vars

----------------------------------------------------------------------------
(* getUserGames over the game lists the remote may send; the teams are known *)

Lions == Team(1, Str("Lions"), Str("LIO"))
Bears == Team(2, Str("Bears"), Str("BEA"))

\* game 1 comes with two start times; games 1 and 2 may start at the same instant
GameRecords ==
  { Game(1, "2024-03-01T18:00:00Z"), Game(2, "2024-03-01T19:00:00+01:00"),
    Game(3, "2024-03-08T18:00:00Z"), Game(1, "2024-03-08T18:00:00Z") }

GameLists == SeqsUpTo(GameRecords, MaxGames)

CardLists == SeqsUpTo({ Card(1, "game"), Card(2, "game"), Card(3, "game"), Card(1, "score") }, MaxGames)

CardsResponses ==
  { Result(cards, games, <<Lions, Bears>>) : cards \in CardLists, games \in GameLists }
    \cup {NoResultField, CallFailed}

FavoriteResponses ==
  { Result(<<>>, <<>>, <<Lions, Bears>>), Result(<<>>, <<>>, <<>>), NoResultField, CallFailed }

ActivityResponses == { Result(<<>>, games, <<>>) : games \in GameLists } \cup {CallFailed}

InitGames ==
  /\ PipelineInit
  /\ variant = "direct"
  /\ PageInit
  /\ LimiterInit
  /\ ElsewhereInit
  /\ service \in {"cards", "fanout"}
  /\ ServiceIdle

NextGames ==
  \/ GetUserGames
  \/ CardsRespond(CardsResponses)
  \/ FavoriteTeamsRespond(FavoriteResponses)
  \/ ActivityRespond(ActivityResponses)

SpecGames == InitGames /\ [][NextGames]_vars

----------------------------------------------------------------------------
(* getUserGames over the team records the remote may send; one game, team 1 *)
(* at home against team 2.  Every team has at most one record.              *)

TeamNames == {Undefined, Str(""), Str("Lions")}

MinTeamNames == {Undefined, Str(""), Str("LIO")}

TeamRecords(id) == { Team(id, n, m) : n \in TeamNames, m \in MinTeamNames }

\* a favorite team that plays in no game of the model
Tigers == Team(3, Str("Tigers"), Str("TIG"))

OneGame == Game(1, "2024-03-01T18:00:00Z")

\* the team collection next to the game: team 1, team 2, both or neither
TeamLists ==
  {<<>>} \cup { <<t>> : t \in TeamRecords(1) \cup TeamRecords(2) }
    \cup { <<t, u>> : t \in TeamRecords(1), u \in TeamRecords(2) }

NameCardsResponses == { Result(<<Card(1, "game")>>, <<OneGame>>, teams) : teams \in TeamLists }

\* team 1 is a favorite, or is in no collection at all
NameFavoriteResponses == { Result(<<>>, <<>>, <<t>>) : t \in TeamRecords(1) \cup {Tigers} }

NameActivityResponses ==
  { Result(<<>>, <<OneGame>>, teams) : teams \in {<<>>} \cup { <<u>> : u \in TeamRecords(2) } }

NextNames ==
  \/ GetUserGames
  \/ CardsRespond(NameCardsResponses)
  \/ FavoriteTeamsRespond(NameFavoriteResponses)
  \/ ActivityRespond(NameActivityResponses)

SpecNames == InitGames /\ [][NextNames]_vars

----------------------------------------------------------------------------
(* /api/health under the environments of a deployment *)

EnvValues ==
  [ NODE_ENV : {Undefined, Str("production"), Str("development")},
    SCORESTREAM_API_KEY : {Undefined, Str(""), Str("k"), Str("key")},
    SCORESTREAM_ACCESS_TOKEN : {Undefined, Str(""), Str("t"), Str("token")},
    SCORESTREAM_API_BASE : {Undefined, Str(""), Str("https://scorestream.com/api")} ]

InitHealth ==
  /\ PipelineInit
  /\ variant = "direct"
  /\ PageInit
  /\ LimiterInit
  /\ ServiceInit
  /\ env \in EnvValues
  /\ health = NoResponse
  /\ RoutesInit
  /\ SelectorInit

NextHealth ==
  \/ HealthGet
  \/ HealthHead

SpecHealth == InitHealth /\ [][NextHealth]_vars

----------------------------------------------------------------------------
(* Requests to the API routes, with and without the credentials configured *)

RoutesEnvs ==
  { e \in EnvValues :
      /\ e["NODE_ENV"] = Str("production")
      /\ e["SCORESTREAM_API_BASE"] = Undefined
      /\ e["SCORESTREAM_API_KEY"] \in {Undefined, Str("key")}
      /\ e["SCORESTREAM_ACCESS_TOKEN"] \in {Undefined, Str("token")} }

InitRoutes ==
  /\ PipelineInit
  /\ variant = "direct"
  /\ PageInit
  /\ LimiterInit
  /\ ServiceInit
  /\ env \in RoutesEnvs
  /\ health = NoResponse
  /\ RoutesInit
  /\ SelectorInit

NextRoutes ==
  \/ UploadPost(UploadRequests)
  \/ UploadBufferDone
  \/ UploadSettles
  \/ UploadRespond
  \/ ProxyPost(ProxyRequests \cup Proxy7Requests)
  \/ ProxyFetchSettles(FetchAnswers)

SpecRoutes == InitRoutes /\ [][NextRoutes]_vars

----------------------------------------------------------------------------
(* The game selector under changes of the user id, refreshes and lookups *)

InitSelector ==
  /\ PipelineInit
  /\ variant = "direct"
  /\ PageInit
  /\ LimiterInit
  /\ ServiceInit
  /\ HealthInit
  /\ RoutesInit
  /\ selector \in {"refresh", "guarded"}
  /\ userId = ""
  /\ live = 0
  /\ effects = 0
  /\ timers = {}
  /\ lookups = {}
  /\ gamesShown = NoGames
  /\ errorShown = NoError
  /\ loading = FALSE
  /\ currentFor = 0
  /\ issued = <<>>

NextSelector ==
  \/ SetUserId
  \/ HandleRefresh
  \/ SelectorTick
  \/ TimerFires300
  \/ LookupSettles(LookupResults)

SpecSelector == InitSelector /\ [][NextSelector]_vars

----------------------------------------------------------------------------
(* Properties *)

\* the PostResults of the completed attempts, in the order of completion
ResultsOf(l) == [k \in 1..Len(l) |-> l[k].result]

Max(a, b) == IF a >= b THEN a ELSE b

\* the attempts run through the list in its order, no index twice
InInputOrder(a) == \A k \in 1..Len(a) : a[k] = k

\* C1: when postMultiplePhotos has returned on N requests, successCount + failureCount
\* = N = totalPhotos, the counts are the lengths of the two lists, every input item has
\* exactly one result, and successful / failed are the successful / failed results.
C1_Partition ==
  pc = "returned" =>
    /\ ret.successCount + ret.failureCount = Len(photos)
    /\ ret.totalPhotos = Len(photos)
    /\ ret.successCount = Len(ret.successful)
    /\ ret.failureCount = Len(ret.failed)
    /\ Len(log) = Len(photos)
    /\ \A k \in 1..Len(log) : log[k].idx = k /\ log[k].id = photos[k].id
    /\ ret.successful = SelectSeq(ResultsOf(log), LAMBDA r : r.success)
    /\ ret.failed = SelectSeq(ResultsOf(log), LAMBDA r : ~r.success)

C1_Witness ==
  /\ pc = "returned"
  /\ Len(photos) = 3
  /\ ret.successCount = 1
  /\ ret.failureCount = 2

\* C2: at most one remote request is outstanding, the requests are issued in input
\* order, and the request of an item is outstanding only when every item before it
\* has completed.
C2_OneInFlight ==
  /\ Cardinality(inFlight) <= 1
  /\ InInputOrder(attempts)
  /\ Len(attempts) <= Len(log) + 1
  /\ \A k \in inFlight : k = Len(attempts) /\ Len(log) = k - 1

C2_Witness ==
  /\ pc = "fetch"
  /\ inFlight = {2}
  /\ Len(log) = 1

\* C3: every attempt but the first is preceded by one cooldown of at least 500 ms, set
\* when the item before it completed; no cooldown is pending or waited for once the
\* last item has reported its progress, and the run has then returned: N items wait
\* max(N-1, 0) cooldowns.
C3_Cooldowns ==
  /\ Len(cooldowns) = Max(Len(attempts) - 1, 0)
  /\ \A k \in 1..Len(cooldowns) : cooldowns[k] >= COOLDOWN_MS
  /\ pc = "cooldown" => Len(progressCalls) = Len(attempts) /\ Len(attempts) < Len(photos)
  /\ (pc # "idle" /\ Len(progressCalls) = Len(photos)) => pc = "returned"
  /\ pc = "returned" => Len(cooldowns) = Max(Len(photos) - 1, 0)

C3_Witness ==
  /\ pc = "returned"
  /\ Len(photos) = 3
  /\ Len(cooldowns) = 2

\* C4: no item is attempted twice, an item is attempted whatever the items before it
\* did, and a run that has returned has attempted every item once.
C4_EachOnce ==
  /\ InInputOrder(attempts)
  /\ pc # "threw"
  /\ pc = "cooldown" => Len(attempts) < Len(photos)
  /\ pc = "returned" => Len(attempts) = Len(photos) /\ Len(log) = Len(photos)

C4_Witness ==
  /\ pc = "returned"
  /\ Len(photos) = 3
  /\ ~log[1].result.success
  /\ log[3].result.success

\* what was thrown while an item was submitted
Threw(entry) ==
  \/ entry.outcome.kind \in {"compress", "reject", "unreadable"}
  \/ entry.outcome.kind = "text" /\ variant = "proxy"

C10_Progress ==
  /\ Len(progressCalls) = Len(log)
  /\ \A k \in 1..Len(progressCalls) :
       progressCalls[k] = [completed |-> k, total |-> Len(photos), currentResult |-> log[k].result]
  /\ pc \in {"compress", "fetch"} => Len(progressCalls) = Len(attempts) - 1
  /\ pc = "cooldown" => Len(progressCalls) = Len(attempts)
  /\ pc = "returned" => Len(progressCalls) = Len(photos)

C10_Witness ==
  /\ pc = "cooldown"
  /\ Len(progressCalls) = 2
  /\ Len(photos) = 3


\* how often the request with identity id is in list
Occurrences(list, id) == Cardinality({ j \in 1..Len(list) : list[j].id = id })

\* C5: retryFailedPhotos(result.failed, originalPhotos) submits every request of
\* originalPhotos whose submission failed once, and no request whose submission
\* succeeded.
C5_RetryExactlyFailed ==
  (run = 2 /\ Len(originalPhotos) = Len(firstLog)) =>
    \A k \in 1..Len(firstLog) :
      Occurrences(photos, firstLog[k].id) = IF firstLog[k].result.success THEN 0 ELSE 1

\* the failed results of the first run, as handed to retryFailedPhotos
FirstFailed == SelectSeq(ResultsOf(firstLog), LAMBDA r : ~r.success)

NamesOf(list) == { list[k].file.name : k \in 1..Len(list) }

\* C6: the retry list is built by file name: it holds, in the order of the failed
\* results, one request of originalPhotos per failed result whose fileName is the name
\* of a request of originalPhotos, and nothing for the other failed results; the list
\* then goes through postMultiplePhotos: one request at a time, in order, a cooldown
\* between items, no exception.
C6_RetryByName ==
  run = 2 =>
    LET matching == SelectSeq(FirstFailed, LAMBDA f : f.fileName \in NamesOf(originalPhotos))
    IN  /\ Len(photos) = Len(matching)
        /\ \A j \in 1..Len(photos) :
             /\ photos[j].file.name = matching[j].fileName
             /\ \E k \in 1..Len(originalPhotos) : originalPhotos[k] = photos[j]
        /\ pc # "threw"
        /\ Cardinality(inFlight) <= 1
        /\ InInputOrder(attempts)
        /\ Len(cooldowns) = Max(Len(attempts) - 1, 0)
        /\ \A k \in 1..Len(cooldowns) : cooldowns[k] >= COOLDOWN_MS
        /\ pc = "returned" =>
             /\ ret.totalPhotos = Len(matching)
             /\ Len(attempts) = Len(matching)
             /\ \A k \in 1..Len(log) : log[k].result.fileName = matching[k].fileName

C6_Witness ==
  /\ run = 2
  /\ pc = "returned"
  /\ Len(photos) = 2
  /\ Len(dropped) = 1
  /\ Len(originalPhotos) = 2

\* the message the priority order of the claim picks from a JSON answer
FieldLevelPresent(data) == Len(data.paramErrors) > 0 /\ data.paramErrors[1] # ""

\* C7: the error of a failed PostResult is the first field-level error message when
\* the answer carries one, else the top-level error (its message, when it is an object
\* with one) when the answer carries one, else "HTTP <status>".
C7_Priority ==
  (pc = "returned" /\ log[1].outcome.kind = "json" /\ ~log[1].result.success) =>
    LET data == log[1].outcome.data
        status == log[1].outcome.status
        error == log[1].result.error
    IN  IF FieldLevelPresent(data) THEN error = Str(data.paramErrors[1])
        ELSE IF Truthy(data.error)
             THEN error = IF data.error.t = "object" /\ data.error.s # ""
                          THEN Str(data.error.s) ELSE data.error
             ELSE error.t = "string" /\ error.s = "HTTP " \o ToString(status)

\* C7, direct variant alone
C7_PriorityDirect == variant = "direct" => C7_Priority

\* a JSON answer that carries no error of any kind
PlainJson(outcome) ==
  /\ outcome.kind = "json"
  /\ ~Truthy(outcome.data.error)
  /\ outcome.data.paramErrors = <<>>
  /\ ~Truthy(outcome.data.details)

StatusLine(status) ==
  IF status = 404 THEN "HTTP 404" ELSE IF status = 500 THEN "HTTP 500" ELSE "HTTP ?"

C11_NoPartialResult ==
  /\ pc # "returned" => ret = NoResult
  /\ ret # NoResult =>
       /\ Len(ret.successful) + Len(ret.failed) = Len(photos)
       /\ Len(attempts) = Len(photos)
       /\ inFlight = {}

C11_Witness ==
  /\ ret # NoResult
  /\ Len(photos) = 3
  /\ Len(ret.successful) = 3

\* C12: a run that has started returns in the end, with every one of its N items
\* attempted, when image loads, remote calls and timers settle.
C12_RunsToCompletion ==
  (pc # "idle") ~> (pc = "returned" /\ Len(attempts) = Len(photos) /\ ret.totalPhotos = Len(photos))

C12_Witness ==
  /\ pc = "returned"
  /\ Len(photos) = 3
  /\ Len(attempts) = 3
  /\ Len(ret.failed) = 3

\* every item held by the page, the uploader or the editor
AllItems ==
  { pagePhotos[k] : k \in 1..Len(pagePhotos) }
    \cup { uploaderPhotos[k] : k \in 1..Len(uploaderPhotos) }
    \cup { editorPhotos[k] : k \in 1..Len(editorPhotos) }

\* the ids the run of `log` got a success result for
PostedIds == { log[k].id : k \in { j \in 1..Len(log) : log[j].result.success } }

\* the ids the run of `log` got a failure result for
FailedIds == { log[k].id : k \in { j \in 1..Len(log) : ~log[j].result.success } }

\* C13: the status of a staged item starts as pending and changes only along
\* pending -> ready -> posting -> {posted | error}, error -> posting; and the items
\* handlePublish takes out of the editor's list as posted each have a success
\* result of their own in the run that just returned.
C13_StatusPath ==
  [][ /\ \A y \in AllItems' :
           \/ \E x \in AllItems :
                /\ x.id = y.id
                /\ (x.status = y.status \/ <<x.status, y.status>> \in StatusEdges)
           \/ y.id \notin { x.id : x \in AllItems } /\ y.status = "pending"
      /\ (pc = "returned" /\ pc' = "idle") => removedAsPosted' \subseteq PostedIds
    ]_vars

\* a run of three items has ended, one posted and taken out, one failed and kept
C13_Witness ==
  /\ pc = "idle"
  /\ Len(log) >= 2
  /\ removedAsPosted # {}
  /\ kept # {}
  /\ kept \subseteq FailedIds

\* the ids on show: in the uploader's list or in the editor's
StagedIds == Ids(uploaderPhotos) \cup Ids(editorPhotos)

\* C14: when a publish run ends in which an item failed, every failed item that was
\* staged is still staged (it leaves only by the user's deletion or its own success).
C14_FailedStayStaged ==
  [][ (pc = "returned" /\ pc' = "idle") =>
        \A id \in FailedIds : id \in StagedIds => id \in StagedIds' ]_vars

\* the timestamps the limiter holds for a key
Stamps(key) == IF key \in DOMAIN tokens THEN tokens[key].timestamps ELSE <<>>

\* the checks of c before the j-th that were admitted
AdmittedBefore(c, j) == { k \in 1..(j - 1) : c[k].ok }

LastOf(S) == CHOOSE x \in S : \A y \in S : y <= x

\* C15: from no recorded requests, the first Limit checks of a key made within one
\* window succeed, the next one within that window fails, and a check made Interval
\* or more after the last recorded request succeeds.
C15_Window ==
  \A key \in Keys :
    LET c == checks[key]
    IN  /\ \A j \in 1..Len(c) :
             (j <= Limit /\ c[j].at - c[1].at < Interval) => c[j].ok
        /\ (Len(c) > Limit /\ c[Limit + 1].at - c[1].at < Interval) => ~c[Limit + 1].ok
        /\ \A j \in 2..Len(c) :
             (/\ AdmittedBefore(c, j) # {}
              /\ c[j].at - c[LastOf(AdmittedBefore(c, j))].at >= Interval) => c[j].ok

\* Limit checks admitted, the next refused in the same window, the one after admitted
\* once the window has passed
C15_Witness ==
  \E key \in Keys :
    LET c == checks[key]
    IN  /\ Len(c) >= Limit + 2
        /\ \A j \in 1..Limit : c[j].ok
        /\ ~c[Limit + 1].ok
        /\ c[Limit + 1].at - c[1].at < Interval
        /\ c[Limit + 2].ok
        /\ c[Limit + 2].at - c[Limit].at >= Interval

\* the step is a check of `key` that was refused
Refused(key) ==
  /\ Len(checks'[key]) = Len(checks[key]) + 1
  /\ ~checks'[key][Len(checks'[key])].ok

\* C16: a refused check records nothing: the key's timestamps lose at most the ones
\* that left the window and gain none, no other key gains one, and at no later time
\* does the key hold more timestamps in its window than it would have held.
C16_RefusedRecordsNothing ==
  [][ \A key \in Keys : Refused(key) =>
        /\ Stamps(key)' = SelectSeq(Stamps(key), LAMBDA ts : ts > now - Interval)
        /\ \A other \in Keys \ {key} :
             \/ Stamps(other)' = Stamps(other)
             \/ Stamps(other)' = SelectSeq(Stamps(other), LAMBDA ts : ts > now - Interval)
        /\ \A t \in now..(MaxTime + Interval) :
             Len(SelectSeq(Stamps(key)', LAMBDA ts : ts > t - Interval))
               = Len(SelectSeq(Stamps(key), LAMBDA ts : ts > t - Interval))
    ]_vars

\* a refused check, and less than a window later an admitted one of the same key
C16_Witness ==
  \E key \in Keys :
    \E j \in 1..(Len(checks[key]) - 1) :
      /\ ~checks[key][j].ok
      /\ checks[key][j + 1].ok
      /\ checks[key][j + 1].at > checks[key][j].at
      /\ checks[key][j + 1].at - checks[key][j].at < Interval

\* the admitted checks of a key whose time lies in (t - Interval, t]
AdmittedIn(key, t) ==
  { j \in 1..Len(checks[key]) :
      /\ checks[key][j].ok
      /\ checks[key][j].at > t - Interval
      /\ checks[key][j].at <= t }

\* C17: checks run one at a time, and for every key and every time t at most Limit
\* admitted checks have their timestamp in (t - Interval, t].
C17_WindowBound ==
  \A key \in Keys : \A t \in 0..MaxTime : Cardinality(AdmittedIn(key, t)) <= Limit

\* two clients have both used up their window at the same instant, and one was refused
C17_Witness ==
  /\ \A key \in Keys : Cardinality(AdmittedIn(key, now)) = Limit
  /\ \A key \in Keys : \A j \in 1..Len(checks[key]) : checks[key][j].at = now
  /\ \E key \in Keys : \E j \in 1..Len(checks[key]) : ~checks[key][j].ok

\* C18: the list getUserGames returns holds at most one entry per game id.
C18_OnePerGame ==
  gpc = "returned" =>
    \A j, k \in 1..Len(userGames) :
      j # k => userGames[j].gameId # userGames[k].gameId

\* the fan-out version alone, where a game id came in both per-team responses
C18_OnePerGameFanout == service = "fanout" => C18_OnePerGame

\* the entries of list that start at the instant t, in the order of list
StartingAt(list, t) == SelectSeq(list, LAMBDA g : GetTime(g.startDateTime) = t)

Instants == { GetTime(s) : s \in StartTimes }

\* C19: the returned list is the collected one in descending order of start
\* timestamp, and entries with equal timestamps are in the order they were collected.
C19_SortedStable ==
  gpc = "returned" =>
    /\ Len(userGames) = Len(collected)
    /\ \A j, k \in 1..Len(userGames) :
         j < k => GetTime(userGames[j].startDateTime) >= GetTime(userGames[k].startDateTime)
    /\ \A t \in Instants : StartingAt(userGames, t) = StartingAt(collected, t)

\* a later game collected last came out first, and two games of the same instant,
\* written as different strings, kept their order
C19_Witness ==
  /\ gpc = "returned"
  /\ Len(userGames) >= 3
  /\ userGames # collected
  /\ \E j \in 1..(Len(userGames) - 1) :
       /\ GetTime(userGames[j].startDateTime) = GetTime(userGames[j + 1].startDateTime)
       /\ userGames[j].startDateTime # userGames[j + 1].startDateTime

\* the team records the remote sent, over all responses
TeamsHeard ==
  UNION { { heard[r].teams[k] : k \in 1..Len(heard[r].teams) } : r \in 1..Len(heard) }

\* the record the remote sent for a team, NoTeam when it sent none
RecordOf(id) ==
  IF \E t \in TeamsHeard : t.teamId = id
  THEN CHOOSE t \in TeamsHeard : t.teamId = id
  ELSE NoTeam

\* explicit name, else alternate short name, else "Team {id}"
NameByFallback(id) ==
  IF Truthy(RecordOf(id).teamName) THEN RecordOf(id).teamName
  ELSE IF Truthy(RecordOf(id).minTeamName) THEN RecordOf(id).minTeamName
  ELSE Str("Team " \o ToString(id))

\* C20: every display name in the returned list is the team's explicit name, else
\* its alternate short name, else "Team {id}" (so for a team without both names or
\* without a record), and it is never empty.
C20_NameFallback ==
  gpc = "returned" =>
    \A k \in 1..Len(userGames) :
      /\ userGames[k].homeTeamName = NameByFallback(userGames[k].homeTeamId)
      /\ userGames[k].awayTeamName = NameByFallback(userGames[k].awayTeamId)
      /\ userGames[k].homeTeamName # Str("")
      /\ userGames[k].awayTeamName # Str("")

\* the fan-out version alone, which reads minTeamName
C20_NameFallbackFanout == service = "fanout" => C20_NameFallback

\* the answers of the remote calls of this getUserGames that failed
FailedCalls == { k \in 1..Len(heard) : heard[k].kind = "reject" }

\* C21: when a remote call of getUserGames has failed, getUserGames has thrown
\* the generic Error "Failed to fetch games from ScoreStream" and has returned
\* no list
C21_FailureRaises ==
  FailedCalls # {} =>
    /\ gpc = "threw"
    /\ thrown = "Failed to fetch games from ScoreStream"

\* C21, lib/scorestream.ts alone: its one call failed, the generic Error is thrown
C21_FailureRaisesCards == service = "cards" => C21_FailureRaises

\* the version of lib/scorestream.ts has thrown after its call failed
C21_WitnessCards == service = "cards" /\ FailedCalls # {} /\ gpc = "threw"

\* the three checks the endpoint is to report on
Configured(e) == Truthy(e["SCORESTREAM_API_KEY"]) /\ Truthy(e["SCORESTREAM_ACCESS_TOKEN"])

\* C22: GET /api/health answers 200 when the environment is present and the
\* API key and the access token are configured, and 503 otherwise
C22_HealthStatus ==
  health.method = "GET" => health.status = IF Configured(env) THEN 200 ELSE 503

\* what the code does: GET answers 503 whatever the configuration
C22_NeverOk == health.method = "GET" => health.status = 503

\* GET has answered a deployment with key, token and base configured
C22_WitnessConfigured ==
  /\ health.method = "GET"
  /\ Configured(env)
  /\ Truthy(env["SCORESTREAM_API_BASE"])

\* the request fails the validation of its route
FailsValidation(r) ==
  \/ r.route \in {"proxy", "proxy7"} /\ ~Truthy(r.method)
  \/ r.route = "proxy7" /\ r.contentType = "multipart" /\ (~Truthy(r.gameId) \/ ~r.picture)
  \/ /\ r.route = "upload"
     /\ \/ r.userId = "" \/ r.gameNumber = ""
        \/ r.files = <<>> /\ r.base64Images = 0
        \/ \E k \in 1..Len(r.files) : TooLarge(r.files[k]) \/ Disallowed(r.files[k])

\* C23: a request that fails validation (and was let through by the rate
\* limiter) is answered with 400, and no remote call is ever made for it
C23_InvalidStartsNothing ==
  (FailsValidation(req) /\ response # 429) =>
    /\ response = 400
    /\ RemoteCalls = {}
    /\ ~fetched

\* C23, the two proxies alone: an invalid request is answered 400 before fetch
C23_ProxyStartsNothing ==
  (req.route \in {"proxy", "proxy7"} /\ FailsValidation(req)) =>
    (response = 400 /\ ~fetched)

\* the later proxy has refused a form that has a method and a picture but no gameId
C23_WitnessProxy ==
  /\ req.route = "proxy7"
  /\ req.contentType = "multipart"
  /\ req.method = Str("games.posts.add")
  /\ req.picture
  /\ ~Truthy(req.gameId)
  /\ response = 400

\* C24: when a publish run ends, no item the run posted is left in the list
\* handlePublish sets for the editor, among them an item that shares its file
\* name with an item that failed.
C24_PostedLeave ==
  [][ (pc = "returned" /\ pc' = "idle") => kept' \cap PostedIds = {} ]_vars

\* C24, for runs whose items all have different file names
C24_PostedLeaveDistinct ==
  [][ (/\ pc = "returned" /\ pc' = "idle"
       /\ \A j, k \in 1..Len(photos) : photos[j].file.name = photos[k].file.name => j = k)
        => kept' \cap PostedIds = {} ]_vars

\* a run over files of different names has ended with one item posted and one kept
C24_WitnessDistinct ==
  /\ pc = "idle"
  /\ removedAsPosted # {}
  /\ kept # {}
  /\ \A j, k \in 1..Len(photos) : photos[j].file.name = photos[k].file.name => j = k

Outcomes(c) == [j \in 1..Len(c) |-> c[j].ok]

\* C25: whatever the calls the sweep ran on, every check of every key has the
\* outcome it has in the same sequence of checks made with no sweep at all.
C25_SweepChangesNothing ==
  \A key \in Keys : Outcomes(checks[key]) = Unswept(checks[key], 1, <<>>)

\* a sweep that ran on a check of another key at this instant has deleted the
\* entry of a key that had been admitted; the other key has been refused and, a
\* window later, admitted again
C25_Witness ==
  \E key \in Keys, other \in Keys :
    /\ key # other
    /\ key \notin DOMAIN tokens
    /\ \E j \in 1..Len(checks[key]) : checks[key][j].ok
    /\ Len(checks[other]) > 0
    /\ checks[other][Len(checks[other])].at = now
    /\ \E j \in 1..(Len(checks[other]) - 1) :
         ~checks[other][j].ok /\ checks[other][j + 1].ok

\* the step is a check of `key`
Checked(key) == Len(checks'[key]) = Len(checks[key]) + 1

\* what a key's entry amounts to from time t on: its timestamps in the window of t
View(timestamps, t) == SelectSeq(timestamps, LAMBDA ts : ts > t - Interval)

\* C26: a check of one key is decided by that key's own timestamps, and changes
\* neither the recorded outcomes of another key nor what that key's entry amounts
\* to in the window of now (and so of any later time); the key's own entry then
\* depends on nothing but its earlier entry and the outcome.
C26_KeysIsolated ==
  [][ \A key \in Keys : Checked(key) =>
        LET mine == View(Stamps(key), now)
            ok == checks'[key][Len(checks'[key])].ok
        IN  /\ ok = (Len(mine) < Limit)
            /\ View(Stamps(key)', now) = (IF ok THEN Append(mine, now) ELSE mine)
            /\ \A other \in Keys \ {key} :
                 /\ checks'[other] = checks[other]
                 /\ View(Stamps(other)', now) = View(Stamps(other), now)
    ]_vars

\* one client is refused and the other is admitted at the same instant
C26_Witness ==
  \E key \in Keys, other \in Keys :
    /\ key # other
    /\ Len(checks[key]) > Limit
    /\ ~checks[key][Len(checks[key])].ok
    /\ checks[key][Len(checks[key])].at = now
    /\ Len(checks[other]) > 0
    /\ checks[other][Len(checks[other])].ok
    /\ checks[other][Len(checks[other])].at = now
    /\ Stamps(other) # <<>>

\* C27: every call of getUserGames the selector makes is for the user id (and
\* refresh) that is current and has been current for the 300 ms of the delay;
\* the lookup of a value that was replaced before that is never made.
C27_Debounced ==
  [][ issued' # issued =>
        LET x == issued'[Len(issued')]
        IN  /\ x.effect = live
            /\ x.userId = userId
            /\ x.stayed >= DEBOUNCE_MS
    ]_vars

\* the user id was replaced while a lookup was pending, and the only lookup made
\* is the one for the later value
C27_Witness ==
  /\ effects >= 2
  /\ Len(issued) = 1
  /\ issued[1].effect = 2
  /\ currentFor >= DEBOUNCE_MS

\* C28: a lookup that has been superseded (its effect run is cleaned up) changes
\* neither games nor error nor loading when its remote call settles.
C28_LateResponseIgnored ==
  [][ \A l \in lookups :
        (l \notin lookups' /\ l.effect # live) =>
          UNCHANGED <<gamesShown, errorShown, loading>>
    ]_vars

\* C28, the version whose fetchGames asks `cancelled` after the await
C28_LateResponseIgnoredGuarded ==
  [][ \A l \in lookups :
        (selector = "guarded" /\ l \notin lookups' /\ l.effect # live) =>
          UNCHANGED <<gamesShown, errorShown, loading>>
    ]_vars

\* guarded version: the lookups of two effect runs were made and have settled, and
\* the games on show are those of the second, the current one
C28_WitnessGuarded ==
  /\ selector = "guarded"
  /\ Len(issued) >= 2
  /\ lookups = {}
  /\ live = 2
  /\ gamesShown = [effect |-> 2, length |-> 1]

\* the runs of postMultiplePhotos started from the editor that have not returned
RunsInProgress ==
  Len(SelectSeq(earlier, LAMBDA left : left > 0))
    + (IF pc \in {"idle", "returned", "threw"} THEN 0 ELSE 1)

\* C29: at most one run of postMultiplePhotos started from the photo editor is
\* in progress at any time.
C29_OneRunAtATime == RunsInProgress <= 1

\* C29, one editor instance: while a run that the mounted editor started is in
\* progress, isPublishing is set and the publish button is not rendered
C29_OneRunPerEditor ==
  (runMounted /\ pc \notin {"idle", "returned", "threw"}) => isPublishing

\* the mounted editor has a run in progress with a request outstanding
C29_WitnessEditor ==
  /\ runMounted
  /\ EditorMounted
  /\ pc = "fetch"
  /\ Len(editorPhotos) > 0

\* C30: the local staging component never holds more than maxPhotos items.
C30_AtMostMaxPhotos == Len(uploaderPhotos) <= maxPhotos

\* C30, drops that are handled after the render of the drop before: a drop
\* adds at most maxPhotos minus the current count
C30_RenderedDropFits ==
  [][ (UpToDate /\ Len(uploaderPhotos) <= maxPhotos) => Len(uploaderPhotos') <= maxPhotos ]_vars

\* a drop onto a rendered list with one item has filled the list and was cut
C30_WitnessFull ==
  /\ UploaderMounted
  /\ Len(uploaderPhotos) = maxPhotos
  /\ rendered = maxPhotos - 1
  /\ nextId = maxPhotos + 1

====
